---- MODULE Spec2Model ----
(***************************************************************************)
(* RabbiTTY: the PTY session bridge, the multiplexed output channel and    *)
(* the tab/engine composition layer (src/session.rs, src/gui/app.rs,       *)
(* src/gui/tab.rs, src/terminal.rs).                                       *)
(*                                                                         *)
(* Threads of control of Spec:                                             *)
(*   - the UI thread, which runs App::update one message at a time and     *)
(*     blocks inside Session::drop while joining a reader thread;          *)
(*   - one reader thread per spawned Session;                              *)
(*   - the subscription task of App::subscription, which forwards events   *)
(*     from the mpsc channel to the runtime;                               *)
(*   - one child process per spawned Session (the environment).            *)
(*                                                                         *)
(* futures::channel::mpsc is modelled by its documented behaviour: a send  *)
(* enqueues when the sender is not parked, the sender is parked when the   *)
(* queue then holds more than `buffer` messages, every receive unparks the *)
(* longest-parked sender, and SinkExt::send returns once the sender is no  *)
(* longer parked (or the receiver is gone).                                *)
(*                                                                         *)
(* Specifications: Spec (the output pipeline), SpecResize (tabs and their  *)
(* sizes), SpecWriter (the shared PTY writer), SpecAlive (is_alive).       *)
(***************************************************************************)
EXTENDS Integers, Sequences, FiniteSets, TLC

\* ---------------------------------------------------------------- bounds
\* CreateTab messages handled after the sender is ready (tab ids 1..MaxTabs)
MaxTabs == 2
\* CreateTab messages handled in the behaviours of SpecSelect, where the
\* children stay quiet
MaxSelectTabs == 3
\* bytes a child process writes to its PTY
MaxOut == 2
\* buffer of the mpsc channel of App::subscription (100 in the source)
ChanBuffer == 1
\* buffer of the stream channel towards the runtime (100 in the source)
OutBuffer == 1
\* write-and-flush operations a PTY writer accepts in one behaviour
MaxPtyIn == 1
\* calls each write call site makes, and the longest byte string it writes
MaxCalls == 1
MaxWrite == 2
\* is_alive calls observed
MaxPolls == 4
\* applications of dim_rgb to one colour
MaxDims == 2

\* ------------------------------------------------------ program constants
\* let mut buf = [0u8; 4096]
ReadBufSize == 4096
\* usize::MAX / the top of the tab id counter, held as the largest signed
\* 32-bit integer; only "larger than any tab count" and "wraps to 0" are
\* used
USIZE_MAX == 2147483647
SETTINGS_TAB_INDEX == USIZE_MAX
\* `as u16`
U16 == 65536
\* (size.height - 80.0).max(100.0), (size.width - 20.0).max(100.0)
HeightMargin == 80
WidthMargin == 20
MinTerminalPx == 100
\* (cols.max(10), rows.max(5))
MinCols == 10
MinRows == 5

VARIABLES
    \* ---- App (src/gui/app.rs:48-59)
    tabs,               \* Vec<TerminalTab>
    active_tab,
    show_shell_picker,
    settings_open,
    pty_sender,         \* Option<Sender>: TRUE iff Some
    next_tab_id,
    window_size,        \* <<width, height>>
    config,             \* [cell_width, cell_height, window_width, window_height]
    \* ---- the UI thread's position
    uiPc,               \* "idle", "kill", "wait", "master", "join", "exited"
    uiDrop,             \* the Session being dropped and the handler to resume
    \* ---- Session objects, keyed by tab id (src/session.rs:18-23)
    sess,               \* [exists, child, master, reader : BOOLEAN]
    ptySize,            \* <<rows, cols>> last given to the PTY (openpty/resize)
    ptyIn,              \* write-and-flush operations done on the PTY writer
    \* ---- child processes and the kernel side of the PTY
    proc,               \* "none", "running", "exited", "reaped"
    nWritten,           \* bytes the child has written
    nRead,              \* bytes the reader has read
    \* ---- reader threads
    rpc,                \* "none","read","sleep","flushData","flushClosed","done"
    \* ---- mpsc::channel(100) of the subscription
    chanQ, chanParked, rxOpen,
    \* ---- stream::channel(100, ..) towards the runtime
    outQ, fwdPc, outOpen,
    \* ---- history (not program state)
    emitted,            \* per id: the events the reader handed to send()
    delivered,          \* per id: the events App::update received
    hist,               \* per id: what has happened (read of 0 bytes, read
                        \* error, event sent to a closed channel, event
                        \* handled with no tab of its id)
    \* ---- one PTY writer shared by two call sites (SpecWriter)
    wHolder,            \* the call site holding the Mutex, or "none"
    wpc,                \* per call site: "idle", "lock", "write", "flush"
    wLeft,              \* per call site: bytes of the current call not yet written
    wCalls,             \* per call site: calls started so far
    wOut,               \* the bytes the PTY writer has received, in order
    \* ---- one Session polled with is_alive (SpecAlive)
    aChild,             \* Session.child is Some
    aProc,              \* "running" or "exited"
    aLog,               \* the is_alive calls made: <<process state, poll, result>>
    \* ---- one key press handled by a tab (SpecKeys)
    kKey,               \* the Key: [kind, name, c]
    kMods,              \* the Modifiers held
    kText,              \* Option<&str>: the composed text
    kTab,               \* the TerminalTab: [session]
    kPc,                \* "none", "pending", "done"
    kRet,               \* what key_to_bytes returned, or NotCalled
    kSent,              \* the byte slices given to Session::send_bytes
    kLogged,            \* eprintln! was reached
    \* ---- one colour resolved for a cell (SpecColour)
    rColor,             \* the AnsiColor: [kind, index, rgb, named]
    rFlags,             \* the cell's Flags
    rApply,             \* apply_intensity
    rColors,            \* the terminal's Colors: one optional override
    rPc,                \* "none", "pending", "done"
    rOut,               \* the Rgb resolve_rgb returned
    dChain,             \* an Rgb and what dim_rgb made of it, repeatedly
    \* ---- one snapshot of a terminal turned into cells (SpecCells)
    gTheme,             \* TerminalEngine.theme
    gSize,              \* TerminalEngine.size: [lines, columns]
    gGrid,              \* display_iter: the cells of the terminal, with points
    gCursor,            \* RenderableContent.cursor: [shape, line, column]
    gColors,            \* RenderableContent.colors
    gPc,                \* "none", "pending", "done"
    gOut,               \* cells: Vec<CellVisual>
    \* ---- the text pipeline preparing frames (SpecAtlas)
    textPipe,           \* TextPipelineData: [atlas, glyphs, font_px, log]
    frame,              \* the prepare_instances call: where it is, the
                        \* cells it has seen and what the lookups returned
    glyph_instances,    \* the Vec the loop of prepare_instances fills
    instance_buffer,    \* [len, data, capacity]: instance_len, the
                        \* buffer's content and instance_capacity
    \* ---- the instance buffers of the two pipelines (SpecBuffers)
    buffers,            \* per pipeline: [capacity, buffer, required]
    \* ---- one TerminalEngine (src/terminal.rs:237-245, 505-509)
    engine,             \* the engine's fields and its Term's event proxy
    arcs,               \* the Arc<Vec<CellVisual>> allocations
    snapshots,          \* the Arcs consumers hold, and what each saw
    eLog,               \* history: the replies written, the last render
    \* ---- the user of one behaviour
    tabLimit            \* the CreateTab messages handled once the sender is ready

vars == <<tabs, active_tab, show_shell_picker, settings_open, pty_sender,
          next_tab_id, window_size, config, uiPc, uiDrop, sess, ptySize,
          ptyIn, proc, nWritten, nRead, rpc, chanQ, chanParked, rxOpen,
          outQ, fwdPc, outOpen, emitted, delivered, hist,
          wHolder, wpc, wLeft, wCalls, wOut, aChild, aProc, aLog,
          kKey, kMods, kText, kTab, kPc, kRet, kSent, kLogged,
          rColor, rFlags, rApply, rColors, rPc, rOut, dChain,
          gTheme, gSize, gGrid, gCursor, gColors, gPc, gOut,
          textPipe, frame, glyph_instances, instance_buffer,
          buffers,
          engine, arcs, snapshots, eLog,
          tabLimit>>

\* the state of the application (Spec, SpecResize)
mainVars == <<tabs, active_tab, show_shell_picker, settings_open, pty_sender,
              next_tab_id, window_size, config, uiPc, uiDrop, sess, ptySize,
              ptyIn, proc, nWritten, nRead, rpc, chanQ, chanParked, rxOpen,
              outQ, fwdPc, outOpen, emitted, delivered, hist>>
writerVars == <<wHolder, wpc, wLeft, wCalls, wOut>>
aliveVars == <<aChild, aProc, aLog>>
\* the state of the component specifications, which the application's
\* actions leave alone
keyVars == <<kKey, kMods, kText, kTab, kPc, kRet, kSent, kLogged>>
colourVars == <<rColor, rFlags, rApply, rColors, rPc, rOut, dChain>>
cellVars == <<gTheme, gSize, gGrid, gCursor, gColors, gPc, gOut>>
atlasVars == <<textPipe, frame, glyph_instances, instance_buffer>>
bufVars == <<buffers>>
engineVars == <<engine, arcs, snapshots, eLog>>
limitVars == <<tabLimit>>
sideVars == <<writerVars, aliveVars, keyVars, colourVars, cellVars, atlasVars,
             bufVars,
             engineVars,
             limitVars>>

appVars == <<tabs, active_tab, show_shell_picker, settings_open, pty_sender,
             next_tab_id, window_size, config>>
sessVars == <<sess, ptySize, ptyIn>>
chanVars == <<chanQ, chanParked, rxOpen>>
outVars == <<outQ, fwdPc, outOpen>>

Ids == 1..MaxSelectTabs
NoSession == [exists |-> FALSE, child |-> FALSE, master |-> FALSE, reader |-> FALSE]
NoDrop == [id |-> 0, cont |-> "none"]

Max(a, b) == IF a >= b THEN a ELSE b
Min(a, b) == IF a <= b THEN a ELSE b

\* ---------------------------------------------------------------- events
\* OutputEvent::Data { tab_id, bytes } / OutputEvent::Closed { tab_id }
DataEvent(id, bytes) == [type |-> "Data", tab_id |-> id, bytes |-> bytes]
ClosedEvent(id) == [type |-> "Closed", tab_id |-> id, bytes |-> <<>>]
\* Message::PtySenderReady(sender)
SenderReadyMsg == [type |-> "PtySenderReady", tab_id |-> 0, bytes |-> <<>>]

\* the k-th byte written by the child of session id
Byte(id, k) == <<id, k>>
\* buf[..n] after a read that follows `from` bytes already read
Chunk(id, from, n) == [i \in 1..n |-> Byte(id, from + i)]

\* ------------------------------------------------ futures mpsc, sender side
IsParked(id) == \E i \in 1..Len(chanParked) : chanParked[i] = id

\* Sender::start_send after poll_ready: Err(disconnected) when the receiver
\* is gone, else the message is queued and the sender parks itself when the
\* queue then holds more than `buffer` messages.
ChanSend(id, ev) ==
    IF rxOpen
    THEN /\ chanQ' = Append(chanQ, ev)
         /\ chanParked' = IF Len(chanQ) + 1 > ChanBuffer
                          THEN Append(chanParked, id)
                          ELSE chanParked
         /\ UNCHANGED rxOpen
    ELSE UNCHANGED chanVars

\* whether the send that ChanSend starts leaves the sender waiting in flush
ChanSendParks == rxOpen /\ Len(chanQ) + 1 > ChanBuffer

\* executor::block_on(output_tx.send(event)): the event is recorded as
\* emitted whether or not the channel takes it (the result is discarded)
\* the history of one id after event ev: the bytes of its Data events in
\* order, the number of its Closed events, and whether an event came after
\* a Closed
Logged(log, ev) ==
    [bytes |-> log.bytes \o ev.bytes,
     closed |-> log.closed + (IF ev.type = "Closed" THEN 1 ELSE 0),
     late |-> log.late \/ log.closed > 0]

Emit(id, ev) ==
    /\ ChanSend(id, ev)
    /\ emitted' = [emitted EXCEPT ![id] = Logged(@, ev)]

\* ------------------------------------------------------------ child process
\* the child writes one more byte to the slave side of its PTY
ChildWrite(id) ==
    /\ proc[id] = "running"
    /\ rpc[id] # "none"
    /\ nWritten[id] < MaxOut
    /\ nWritten' = [nWritten EXCEPT ![id] = @ + 1]
    /\ UNCHANGED sideVars
    /\ UNCHANGED <<appVars, uiPc, uiDrop, sessVars, proc, nRead, rpc, chanVars,
                   outVars, emitted, delivered, hist>>

\* the child exits by itself (the shell ends)
ChildExit(id) ==
    /\ proc[id] = "running"
    /\ proc' = [proc EXCEPT ![id] = "exited"]
    /\ UNCHANGED sideVars
    /\ UNCHANGED <<appVars, uiPc, uiDrop, sessVars, nWritten, nRead, rpc,
                   chanVars, outVars, emitted, delivered, hist>>

\* ------------------------------------------------------------ reader thread
Pending(id) == nWritten[id] - nRead[id]
\* the slave side is closed and everything written has been read
HungUp(id) == proc[id] \in {"exited", "reaped"} /\ Pending(id) = 0

\* Ok(n), n > 0: send Data { tab_id, bytes: buf[..n] }; the result of the
\* send is discarded and the loop goes on
ReaderData(id, n) ==
    /\ rpc[id] = "read"
    /\ n >= 1 /\ n <= Pending(id) /\ n <= ReadBufSize
    /\ nRead' = [nRead EXCEPT ![id] = @ + n]
    /\ Emit(id, DataEvent(id, Chunk(id, nRead[id], n)))
    /\ rpc' = [rpc EXCEPT ![id] = IF ChanSendParks THEN "flushData" ELSE "read"]
    /\ hist' = [hist EXCEPT ![id].dropped = @ \/ ~rxOpen]
    /\ UNCHANGED sideVars
    /\ UNCHANGED <<appVars, uiPc, uiDrop, sessVars, proc, nWritten, outVars,
                   delivered>>

\* Ok(0) that sends Closed { tab_id } and does not leave the loop
ReaderEofNoBreak(id) ==
    /\ rpc[id] = "read"
    /\ HungUp(id)
    /\ Emit(id, ClosedEvent(id))
    /\ rpc' = [rpc EXCEPT ![id] = IF ChanSendParks THEN "flushData" ELSE "read"]
    /\ hist' = [hist EXCEPT ![id].eof = TRUE]
    /\ UNCHANGED sideVars
    /\ UNCHANGED <<appVars, uiPc, uiDrop, sessVars, proc, nWritten, nRead,
                   outVars, delivered>>

\* Ok(0) that leaves the loop without sending anything
ReaderEofSilent(id) ==
    /\ rpc[id] = "read"
    /\ HungUp(id)
    /\ rpc' = [rpc EXCEPT ![id] = "done"]
    /\ hist' = [hist EXCEPT ![id].eof = TRUE]
    /\ UNCHANGED sideVars
    /\ UNCHANGED <<appVars, uiPc, uiDrop, sessVars, proc, nWritten, nRead,
                   chanVars, outVars, emitted, delivered>>

\* Ok(0): send Closed { tab_id } and break
ReaderEof(id) ==
    /\ rpc[id] = "read"
    /\ HungUp(id)
    /\ Emit(id, ClosedEvent(id))
    /\ rpc' = [rpc EXCEPT ![id] = IF ChanSendParks THEN "flushClosed" ELSE "done"]
    /\ hist' = [hist EXCEPT ![id].eof = TRUE]
    /\ UNCHANGED sideVars
    /\ UNCHANGED <<appVars, uiPc, uiDrop, sessVars, proc, nWritten, nRead,
                   outVars, delivered>>

\* Err(Interrupted) => continue
ReaderInterrupted(id) ==
    /\ rpc[id] = "read"
    /\ UNCHANGED vars

\* Err(WouldBlock) => sleep 5 ms, continue
ReaderWouldBlock(id) ==
    /\ rpc[id] = "read"
    /\ rpc' = [rpc EXCEPT ![id] = "sleep"]
    /\ UNCHANGED sideVars
    /\ UNCHANGED <<appVars, uiPc, uiDrop, sessVars, proc, nWritten, nRead,
                   chanVars, outVars, emitted, delivered, hist>>

ReaderWake(id) ==
    /\ rpc[id] = "sleep"
    /\ rpc' = [rpc EXCEPT ![id] = "read"]
    /\ UNCHANGED sideVars
    /\ UNCHANGED <<appVars, uiPc, uiDrop, sessVars, proc, nWritten, nRead,
                   chanVars, outVars, emitted, delivered, hist>>

\* Err(_) that leaves the loop without sending anything
ReaderErrorSilent(id) ==
    /\ rpc[id] = "read"
    /\ HungUp(id)
    /\ rpc' = [rpc EXCEPT ![id] = "done"]
    /\ hist' = [hist EXCEPT ![id].ioerr = TRUE]
    /\ UNCHANGED sideVars
    /\ UNCHANGED <<appVars, uiPc, uiDrop, sessVars, proc, nWritten, nRead,
                   chanVars, outVars, emitted, delivered>>

\* Err(_) (EIO once the slave side is closed): send Closed { tab_id }, break
ReaderError(id) ==
    /\ rpc[id] = "read"
    /\ HungUp(id)
    /\ Emit(id, ClosedEvent(id))
    /\ rpc' = [rpc EXCEPT ![id] = IF ChanSendParks THEN "flushClosed" ELSE "done"]
    /\ hist' = [hist EXCEPT ![id].ioerr = TRUE]
    /\ UNCHANGED sideVars
    /\ UNCHANGED <<appVars, uiPc, uiDrop, sessVars, proc, nWritten, nRead,
                   outVars, delivered>>

\* the tail of SinkExt::send: poll_flush is ready once the sender is not
\* parked, or the receiver is gone
ReaderFlush(id) ==
    /\ rpc[id] \in {"flushData", "flushClosed"}
    /\ ~IsParked(id)
    /\ rpc' = [rpc EXCEPT ![id] = IF rpc[id] = "flushData" THEN "read" ELSE "done"]
    /\ UNCHANGED sideVars
    /\ UNCHANGED <<appVars, uiPc, uiDrop, sessVars, proc, nWritten, nRead,
                   chanVars, outVars, emitted, delivered, hist>>

\* ------------------------------------------------------- subscription task
\* stream channel, sender side (one sender: the task itself)
OutSend(msg, then) ==
    IF outOpen
    THEN /\ outQ' = Append(outQ, msg)
         /\ fwdPc' = IF Len(outQ) + 1 > OutBuffer THEN "flush" ELSE then
         /\ UNCHANGED outOpen
    ELSE /\ fwdPc' = then
         /\ UNCHANGED <<outQ, outOpen>>

\* let _ = output.send(Message::PtySenderReady(sender)).await
FwdStart ==
    /\ fwdPc = "start"
    /\ OutSend(SenderReadyMsg, "next")
    /\ UNCHANGED sideVars
    /\ UNCHANGED <<appVars, uiPc, uiDrop, sessVars, proc, nWritten, nRead, rpc,
                   chanVars, emitted, delivered, hist>>

\* Receiver::next: take the oldest message and unpark the longest-parked
\* sender
ChanRecv ==
    /\ chanQ' = Tail(chanQ)
    /\ chanParked' = IF chanParked = <<>> THEN <<>> ELSE Tail(chanParked)
    /\ UNCHANGED rxOpen

\* a forwarder that gives up an event when the stream has no room for it
FwdForwardLossy ==
    /\ fwdPc = "next"
    /\ outOpen
    /\ chanQ # <<>>
    /\ ChanRecv
    /\ IF Len(outQ) + 1 > OutBuffer
       THEN UNCHANGED outVars
       ELSE OutSend(Head(chanQ), "next")
    /\ UNCHANGED sideVars
    /\ UNCHANGED <<appVars, uiPc, uiDrop, sessVars, proc, nWritten, nRead, rpc,
                   emitted, delivered, hist>>

\* while let Some(event) = receiver.next().await {
\*     if output.send(Message::PtyOutput(event)).await.is_err() { break; } }
FwdForward ==
    /\ fwdPc = "next"
    /\ outOpen
    /\ chanQ # <<>>
    /\ ChanRecv
    /\ OutSend(Head(chanQ), "next")
    /\ UNCHANGED sideVars
    /\ UNCHANGED <<appVars, uiPc, uiDrop, sessVars, proc, nWritten, nRead, rpc,
                   emitted, delivered, hist>>

\* the runtime has taken a message: the task's send completes
FwdFlush ==
    /\ fwdPc = "flush"
    /\ Len(outQ) <= OutBuffer \/ ~outOpen
    /\ fwdPc' = "next"
    /\ UNCHANGED sideVars
    /\ UNCHANGED <<appVars, uiPc, uiDrop, sessVars, proc, nWritten, nRead, rpc,
                   chanVars, outQ, outOpen, emitted, delivered, hist>>

\* the runtime's side of the stream is gone: the send fails (or the stream
\* is dropped), the loop ends and the mpsc receiver is dropped with
\* everything queued in it; parked senders are woken
FwdStop ==
    /\ fwdPc \in {"start", "next"}
    /\ ~outOpen
    /\ fwdPc' = "stopped"
    /\ rxOpen' = FALSE
    /\ chanQ' = <<>>
    /\ chanParked' = <<>>
    /\ UNCHANGED sideVars
    /\ UNCHANGED <<appVars, uiPc, uiDrop, sessVars, proc, nWritten, nRead, rpc,
                   outQ, outOpen, emitted, delivered, hist>>

\* ------------------------------------------------------------------ inputs
\* window sizes the windowing system or the settings page can report
DefaultWindow == <<600, 350>>
WindowSizes == {DefaultWindow, <<65600, 350>>}
\* cell sizes a config file or the settings page can hold
DefaultCell == <<8, 16>>
CellSizes == {DefaultCell, <<1, 16>>}
\* outcomes of the four fallible steps of Session::spawn
SpawnOutcomes == {"ok", "openpty failed", "spawn failed",
                  "reader clone failed", "writer unavailable"}
\* keys: two with a byte sequence, one without
Keys == {"Escape", "Enter", "Unmapped"}

\* --------------------------------------------------------------- App helpers
\* App::grid_for_size, on whole pixels
grid_for_size(size, cfg) ==
    LET terminal_height == Max(size[2] - HeightMargin, MinTerminalPx)
        terminal_width == Max(size[1] - WidthMargin, MinTerminalPx)
        cell_width == Max(cfg.cell_width, 1)
        cell_height == Max(cfg.cell_height, 1)
        cols == terminal_width \div cell_width
        rows == terminal_height \div cell_height
    IN <<Max(cols, MinCols), Max(rows, MinRows)>>

\* `x as u16`
AsU16(x) == x % U16

\* u64::wrapping_add(1)
WrappingAdd1(n) == IF n = USIZE_MAX THEN 0 ELSE n + 1

NTabs == Len(tabs)
\* Vec::remove(index), index counted from 0
RemoveAt(seq, index) ==
    [i \in 1..(Len(seq) - 1) |-> IF i <= index THEN seq[i] ELSE seq[i + 1]]
TabIds == {tabs[i].id : i \in 1..NTabs}
\* self.tabs.iter().position(|t| t.id == tab_id), counted from 0; -1 for None
PositionOf(tab_id) ==
    IF \E i \in 1..NTabs : tabs[i].id = tab_id
    THEN (CHOOSE i \in 1..NTabs :
              /\ tabs[i].id = tab_id
              /\ \A j \in 1..(i - 1) : tabs[j].id # tab_id) - 1
    ELSE -1

\* ------------------------------------------------------------------ Session
\* Session::spawn(spec, tab_id, output_tx) with the outcome of its fallible
\* steps: on "ok" the Session holds writer, child, master and reader handle
\* and the reader thread runs; on an error nothing is returned but the Err.
\* A child spawned before a later step failed is not killed by the error
\* path.
\* a spawn that keeps the Session and its reader thread when the writer
\* could not be taken
SessionSpawnKeepsReader(id, rows, cols, outcome) ==
    /\ sess' = [sess EXCEPT ![id] =
                   IF outcome \in {"ok", "writer unavailable"}
                   THEN [exists |-> TRUE, child |-> TRUE, master |-> TRUE,
                         reader |-> TRUE]
                   ELSE NoSession]
    /\ ptySize' = [ptySize EXCEPT ![id] =
                      IF outcome = "ok" THEN <<rows, cols>> ELSE @]
    /\ proc' = [proc EXCEPT ![id] =
                   IF outcome \in {"ok", "reader clone failed", "writer unavailable"}
                   THEN "running" ELSE @]
    /\ rpc' = [rpc EXCEPT ![id] =
                  IF outcome \in {"ok", "writer unavailable"} THEN "read" ELSE @]

SessionSpawn(id, rows, cols, outcome) ==
    /\ sess' = [sess EXCEPT ![id] =
                   IF outcome = "ok"
                   THEN [exists |-> TRUE, child |-> TRUE, master |-> TRUE,
                         reader |-> TRUE]
                   ELSE NoSession]
    /\ ptySize' = [ptySize EXCEPT ![id] =
                      IF outcome = "ok" THEN <<rows, cols>> ELSE @]
    /\ proc' = [proc EXCEPT ![id] =
                   IF outcome \in {"ok", "reader clone failed", "writer unavailable"}
                   THEN "running" ELSE @]
    /\ rpc' = [rpc EXCEPT ![id] = IF outcome = "ok" THEN "read" ELSE @]

\* Session::resize(rows, cols): the PTY is told the new size
SessionResize(sizes, id, rows, cols) ==
    IF sess[id].master THEN [sizes EXCEPT ![id] = <<rows, cols>>] ELSE sizes

\* -------------------------------------------------------------- TerminalTab
\* ShellKind::launch_spec: rows: size.lines as u16, cols: size.columns as u16
LaunchRows(lines) == AsU16(lines)
LaunchCols(columns) == AsU16(columns)

\* TerminalTab::launch: Active(session) on Ok, Failed(err.to_string()) on Err;
\* the engine starts with the requested size
TabLaunched(tab_id, columns, lines, outcome) ==
    [id |-> tab_id,
     session |-> IF outcome = "ok" THEN "Active" ELSE "Failed",
     err |-> IF outcome = "ok" THEN "none" ELSE outcome,
     size |-> <<columns, lines>>,
     fed |-> <<>>]

\* TerminalTab::resize, the engine half: self.engine.resize(new_size)
TabResized(tab, columns, lines) == [tab EXCEPT !.size = <<columns, lines>>]

\* TerminalTab::resize, the session half:
\*   if let Active(session) = &self.session
\*       { let _ = session.resize(lines as u16, columns as u16); }
TabResizePty(sizes, tab, columns, lines) ==
    IF tab.session = "Active"
    THEN SessionResize(sizes, tab.id, AsU16(lines), AsU16(columns))
    ELSE sizes

\* every tab resized in turn: for tab in &mut self.tabs { tab.resize(..) }
RECURSIVE ResizeAllPty(_, _, _, _)
ResizeAllPty(sizes, n, columns, lines) ==
    IF n = 0 THEN sizes
    ELSE TabResizePty(ResizeAllPty(sizes, n - 1, columns, lines),
                      tabs[n], columns, lines)

\* TerminalTab::key_to_bytes, reduced to whether the key has a byte sequence
KeyHasBytes(key) == key # "Unmapped"

\* ------------------------------------------------------ App::update handlers
\* the selection after a tab was removed, by the handler that removed it
\*   CloseTab: if active_tab != SETTINGS { if active_tab >= len && !empty
\*             { active_tab = len - 1 } if empty { active_tab = 0 } }
\*   Closed:   if active_tab >= len && !empty { active_tab = len - 1 }
\* a selection that no removal moves
keep_index(cont, active, len) == active

AfterRemove(cont, active, len) ==
    IF cont = "CloseTab"
    THEN IF active # SETTINGS_TAB_INDEX
         THEN IF len = 0 THEN 0
              ELSE IF active >= len THEN len - 1 ELSE active
         ELSE active
    ELSE IF active >= len /\ len # 0 THEN len - 1 ELSE active

\* the removed TerminalTab is dropped where Vec::remove returns it: a tab
\* with a Session runs Session::drop before the handler goes on, a Failed
\* tab holds nothing to drop
DropRemoved(tab, cont, len) ==
    IF tab.session = "Active"
    THEN /\ uiPc' = "kill"
         /\ uiDrop' = [id |-> tab.id, cont |-> cont]
         /\ UNCHANGED active_tab
    ELSE /\ active_tab' = AfterRemove(cont, active_tab, len)
         /\ UNCHANGED <<uiPc, uiDrop>>

\* Message::TabSelected(index)
TabSelected(index) ==
    /\ uiPc = "idle"
    /\ active_tab' = IF index = SETTINGS_TAB_INDEX /\ settings_open
                     THEN SETTINGS_TAB_INDEX
                     ELSE IF index < NTabs THEN index ELSE active_tab
    /\ UNCHANGED sideVars
    /\ UNCHANGED <<tabs, show_shell_picker, settings_open, pty_sender,
                   next_tab_id, window_size, config, uiPc, uiDrop, sessVars,
                   proc, nWritten, nRead, rpc, chanVars, outVars, emitted,
                   delivered, hist>>

\* Message::CloseTab(index)
CloseTab(index) ==
    /\ uiPc = "idle"
    /\ IF index = SETTINGS_TAB_INDEX
       THEN /\ settings_open' = FALSE
            /\ active_tab' = IF active_tab = SETTINGS_TAB_INDEX
                             THEN Max(NTabs - 1, 0) ELSE active_tab
            /\ UNCHANGED <<tabs, uiPc, uiDrop>>
       ELSE IF index < NTabs
            THEN /\ tabs' = RemoveAt(tabs, index)
                 /\ DropRemoved(tabs[index + 1], "CloseTab", NTabs - 1)
                 /\ UNCHANGED settings_open
            ELSE UNCHANGED <<tabs, active_tab, settings_open, uiPc, uiDrop>>
    /\ UNCHANGED sideVars
    /\ UNCHANGED <<show_shell_picker, pty_sender, next_tab_id, window_size,
                   config, sessVars, proc, nWritten, nRead, rpc, chanVars,
                   outVars, emitted, delivered, hist>>

\* Message::OpenShellPicker
OpenShellPicker ==
    /\ uiPc = "idle"
    /\ show_shell_picker' = TRUE
    /\ UNCHANGED sideVars
    /\ UNCHANGED <<tabs, active_tab, settings_open, pty_sender, next_tab_id,
                   window_size, config, uiPc, uiDrop, sessVars, proc, nWritten,
                   nRead, rpc, chanVars, outVars, emitted, delivered, hist>>

\* Message::CloseShellPicker
CloseShellPicker ==
    /\ uiPc = "idle"
    /\ show_shell_picker' = FALSE
    /\ UNCHANGED sideVars
    /\ UNCHANGED <<tabs, active_tab, settings_open, pty_sender, next_tab_id,
                   window_size, config, uiPc, uiDrop, sessVars, proc, nWritten,
                   nRead, rpc, chanVars, outVars, emitted, delivered, hist>>

\* Message::CreateTab(shell): nothing without a sender; else the next tab id
\* is taken, the tab is launched with the current grid and becomes active
CreateTab(outcome) ==
    /\ uiPc = "idle"
    /\ IF ~pty_sender
       THEN UNCHANGED <<tabs, active_tab, show_shell_picker, next_tab_id,
                        sess, ptySize, proc, rpc>>
       ELSE LET grid == grid_for_size(window_size, config)
                tab_id == next_tab_id
            IN /\ tab_id \in Ids
               /\ tab_id <= tabLimit
               /\ next_tab_id' = WrappingAdd1(next_tab_id)
               /\ SessionSpawn(tab_id, LaunchRows(grid[2]), LaunchCols(grid[1]),
                               outcome)
               /\ tabs' = Append(tabs, TabLaunched(tab_id, grid[1], grid[2], outcome))
               /\ active_tab' = Len(tabs)
               /\ show_shell_picker' = FALSE
    /\ UNCHANGED sideVars
    /\ UNCHANGED <<settings_open, pty_sender, window_size, config, uiPc, uiDrop,
                   ptyIn, nWritten, nRead, chanVars, outVars, emitted,
                   delivered, hist>>

\* Message::OpenSettingsTab
OpenSettingsTab ==
    /\ uiPc = "idle"
    /\ settings_open' = TRUE
    /\ active_tab' = SETTINGS_TAB_INDEX
    /\ UNCHANGED sideVars
    /\ UNCHANGED <<tabs, show_shell_picker, pty_sender, next_tab_id,
                   window_size, config, uiPc, uiDrop, sessVars, proc, nWritten,
                   nRead, rpc, chanVars, outVars, emitted, delivered, hist>>

\* Message::SelectSettingsCategory(category)
SelectSettingsCategory ==
    /\ uiPc = "idle"
    /\ settings_open' = TRUE
    /\ active_tab' = IF settings_open THEN active_tab ELSE SETTINGS_TAB_INDEX
    /\ UNCHANGED sideVars
    /\ UNCHANGED <<tabs, show_shell_picker, pty_sender, next_tab_id,
                   window_size, config, uiPc, uiDrop, sessVars, proc, nWritten,
                   nRead, rpc, chanVars, outVars, emitted, delivered, hist>>

\* the tabs after `for tab in &mut self.tabs { tab.resize(cols, rows) }`
ResizedTabs(columns, lines) ==
    [i \in 1..NTabs |-> TabResized(tabs[i], columns, lines)]

\* Message::WindowResized(size)
WindowResized(size) ==
    /\ uiPc = "idle"
    /\ window_size' = size
    /\ LET grid == grid_for_size(size, config)
       IN /\ tabs' = ResizedTabs(grid[1], grid[2])
          /\ ptySize' = ResizeAllPty(ptySize, NTabs, grid[1], grid[2])
    /\ UNCHANGED sideVars
    /\ UNCHANGED <<active_tab, show_shell_picker, settings_open, pty_sender,
                   next_tab_id, config, uiPc, uiDrop, sess, ptyIn, proc,
                   nWritten, nRead, rpc, chanVars, outVars, emitted, delivered,
                   hist>>

\* Message::ApplySettings / Message::SaveSettings -> App::apply_settings with
\* the draft holding window size `size` and cell size `cell`: the config
\* takes the values, window_size follows the configured window size, every
\* tab is resized to the grid of the new window and cell size
ApplySettings(size, cell) ==
    /\ uiPc = "idle"
    /\ config' = [cell_width |-> cell[1], cell_height |-> cell[2],
                  window_width |-> size[1], window_height |-> size[2]]
    /\ window_size' = size
    /\ LET grid == grid_for_size(size, config')
       IN /\ tabs' = ResizedTabs(grid[1], grid[2])
          /\ ptySize' = ResizeAllPty(ptySize, NTabs, grid[1], grid[2])
    /\ UNCHANGED sideVars
    /\ UNCHANGED <<active_tab, show_shell_picker, settings_open, pty_sender,
                   next_tab_id, uiPc, uiDrop, sess, ptyIn, proc, nWritten,
                   nRead, rpc, chanVars, outVars, emitted, delivered, hist>>

\* TerminalTab::feed_bytes -> TerminalEngine::feed_bytes: the engine takes
\* the bytes
TabFed(tab, bytes) == [tab EXCEPT !.fed = @ \o bytes]

\* the tabs after feeding the tab at position tab_id - 1, if there is one
FeedByIndex(tab_id, bytes) ==
    IF tab_id > NTabs THEN tabs
    ELSE [tabs EXCEPT ![tab_id] = TabFed(@, bytes)]

\* the tabs after `if let Some(tab) = tabs.iter_mut().find(|t| t.id == tab_id)
\*                     { tab.feed_bytes(&bytes) }`
FeedById(tab_id, bytes) ==
    LET index == PositionOf(tab_id)
    IN IF index = -1 THEN tabs
       ELSE [tabs EXCEPT ![index + 1] = TabFed(@, bytes)]

\* PtyEventProxy::send_event(PtyWrite / TextAreaSizeRequest) or
\* Session::send_bytes on the writer of tab `tab`: one write_all + flush on
\* the session's PTY writer; the writer of a Failed tab is io::sink()
WriterWrite(pin, tab) ==
    IF tab.session = "Active" THEN [pin EXCEPT ![tab.id] = @ + 1] ELSE pin

\* the runtime hands the next message of the stream to App::update
Deliver ==
    /\ uiPc = "idle"
    /\ outQ # <<>>
    /\ outQ' = Tail(outQ)
    /\ UNCHANGED <<fwdPc, outOpen>>

\* Message::PtySenderReady(sender)
PtySenderReady ==
    /\ Deliver
    /\ Head(outQ).type = "PtySenderReady"
    /\ pty_sender' = TRUE
    /\ UNCHANGED sideVars
    /\ UNCHANGED <<tabs, active_tab, show_shell_picker, settings_open,
                   next_tab_id, window_size, config, uiPc, uiDrop, sessVars,
                   proc, nWritten, nRead, rpc, chanVars, emitted, delivered,
                   hist>>

\* Message::PtyOutput(OutputEvent::Data { tab_id, bytes }); `reply` says
\* whether the engine answers the bytes with a write to the PTY
PtyOutputData(reply) ==
    /\ Deliver
    /\ Head(outQ).type = "Data"
    /\ LET event == Head(outQ)
           index == PositionOf(event.tab_id)
       IN /\ tabs' = FeedById(event.tab_id, event.bytes)
          /\ delivered' = [delivered EXCEPT ![event.tab_id] = Logged(@, event)]
          /\ hist' = [hist EXCEPT ![event.tab_id].unrouted = @ \/ index = -1]
          /\ IF reply /\ index # -1
             THEN /\ tabs[index + 1].session = "Active" =>
                         ptyIn[tabs[index + 1].id] < MaxPtyIn
                  /\ ptyIn' = WriterWrite(ptyIn, tabs[index + 1])
             ELSE UNCHANGED ptyIn
    /\ UNCHANGED sideVars
    /\ UNCHANGED <<active_tab, show_shell_picker, settings_open, pty_sender,
                   next_tab_id, window_size, config, uiPc, uiDrop, sess,
                   ptySize, proc, nWritten, nRead, rpc, chanVars, emitted>>

\* a Closed handler that removes the tab at position tab_id - 1
PtyOutputClosedByIndex ==
    /\ Deliver
    /\ Head(outQ).type = "Closed"
    /\ LET event == Head(outQ)
           index == IF event.tab_id <= NTabs THEN event.tab_id - 1 ELSE -1
       IN /\ delivered' = [delivered EXCEPT ![event.tab_id] = Logged(@, event)]
          /\ hist' = [hist EXCEPT ![event.tab_id].unrouted = @ \/ index = -1]
          /\ IF index # -1
             THEN /\ tabs' = RemoveAt(tabs, index)
                  /\ DropRemoved(tabs[index + 1], "Closed", NTabs - 1)
             ELSE UNCHANGED <<tabs, active_tab, uiPc, uiDrop>>
    /\ UNCHANGED sideVars
    /\ UNCHANGED <<show_shell_picker, settings_open, pty_sender, next_tab_id,
                   window_size, config, sessVars, proc, nWritten, nRead, rpc,
                   chanVars, emitted>>

\* Message::PtyOutput(OutputEvent::Closed { tab_id })
PtyOutputClosed ==
    /\ Deliver
    /\ Head(outQ).type = "Closed"
    /\ LET event == Head(outQ)
           index == PositionOf(event.tab_id)
       IN /\ delivered' = [delivered EXCEPT ![event.tab_id] = Logged(@, event)]
          /\ hist' = [hist EXCEPT ![event.tab_id].unrouted = @ \/ index = -1]
          /\ IF index # -1
             THEN /\ tabs' = RemoveAt(tabs, index)
                  /\ DropRemoved(tabs[index + 1], "Closed", NTabs - 1)
             ELSE UNCHANGED <<tabs, active_tab, uiPc, uiDrop>>
    /\ UNCHANGED sideVars
    /\ UNCHANGED <<show_shell_picker, settings_open, pty_sender, next_tab_id,
                   window_size, config, sessVars, proc, nWritten, nRead, rpc,
                   chanVars, emitted>>

\* a key sent to the first tab, whichever is active
handle_key_first(pin, tab, key) ==
    IF NTabs > 0 /\ tabs[1].session = "Active" /\ KeyHasBytes(key)
    THEN WriterWrite(pin, tabs[1]) ELSE pin

\* TerminalTab::handle_key: an Active session is sent the bytes of a key that
\* has some
HandleKey(pin, tab, key) ==
    IF tab.session = "Active" /\ KeyHasBytes(key) THEN WriterWrite(pin, tab) ELSE pin

\* Message::KeyPressed { key, modifiers, text }
KeyPressed(key) ==
    /\ uiPc = "idle"
    /\ IF active_tab = SETTINGS_TAB_INDEX
       THEN UNCHANGED <<show_shell_picker, ptyIn>>
       ELSE IF show_shell_picker
            THEN /\ show_shell_picker' = (key # "Escape")
                 /\ UNCHANGED ptyIn
            ELSE /\ UNCHANGED show_shell_picker
                 /\ IF active_tab < NTabs
                    THEN /\ ptyIn' = HandleKey(ptyIn, tabs[active_tab + 1], key)
                         /\ \A id \in Ids : ptyIn'[id] <= MaxPtyIn
                    ELSE UNCHANGED ptyIn
    /\ UNCHANGED sideVars
    /\ UNCHANGED <<tabs, active_tab, settings_open, pty_sender, next_tab_id,
                   window_size, config, uiPc, uiDrop, sess, ptySize, proc,
                   nWritten, nRead, rpc, chanVars, outVars, emitted, delivered,
                   hist>>

\* Message::Exit -> iced::exit(): the runtime stops taking messages and its
\* side of the stream is dropped with what it holds
Exit ==
    /\ uiPc = "idle"
    /\ uiPc' = "exited"
    /\ outOpen' = FALSE
    /\ outQ' = <<>>
    /\ UNCHANGED sideVars
    /\ UNCHANGED <<appVars, uiDrop, sessVars, proc, nWritten, nRead, rpc,
                   chanVars, fwdPc, emitted, delivered, hist>>

\* ------------------------------------------------------------ Session::drop
\* a drop that kills the child and does not wait for it
DropKillNoWait ==
    /\ uiPc = "kill"
    /\ sess' = [sess EXCEPT ![uiDrop.id].child = FALSE]
    /\ proc' = [proc EXCEPT ![uiDrop.id] = IF @ = "running" THEN "exited" ELSE @]
    /\ uiPc' = "master"
    /\ UNCHANGED sideVars
    /\ UNCHANGED <<appVars, uiDrop, ptySize, ptyIn, nWritten, nRead, rpc,
                   chanVars, outVars, emitted, delivered, hist>>

\* if let Some(mut child) = self.child.take() { let _ = child.kill(); ..
DropKill ==
    /\ uiPc = "kill"
    /\ sess' = [sess EXCEPT ![uiDrop.id].child = FALSE]
    /\ proc' = [proc EXCEPT ![uiDrop.id] = IF @ = "running" THEN "exited" ELSE @]
    /\ uiPc' = "wait"
    /\ UNCHANGED sideVars
    /\ UNCHANGED <<appVars, uiDrop, ptySize, ptyIn, nWritten, nRead, rpc,
                   chanVars, outVars, emitted, delivered, hist>>

\* .. let _ = child.wait(); }
DropWait ==
    /\ uiPc = "wait"
    /\ proc[uiDrop.id] = "exited"
    /\ proc' = [proc EXCEPT ![uiDrop.id] = "reaped"]
    /\ uiPc' = "master"
    /\ UNCHANGED sideVars
    /\ UNCHANGED <<appVars, uiDrop, sessVars, nWritten, nRead, rpc, chanVars,
                   outVars, emitted, delivered, hist>>

\* self.master.take();
DropMaster ==
    /\ uiPc = "master"
    /\ sess' = [sess EXCEPT ![uiDrop.id].master = FALSE]
    /\ uiPc' = "join"
    /\ UNCHANGED sideVars
    /\ UNCHANGED <<appVars, uiDrop, ptySize, ptyIn, proc, nWritten, nRead, rpc,
                   chanVars, outVars, emitted, delivered, hist>>

\* if let Some(handle) = self.reader.take() { let _ = handle.join(); }
\* join returns once the reader thread has ended; the Session is gone and
\* the handler that removed the tab goes on
DropJoin ==
    /\ uiPc = "join"
    /\ rpc[uiDrop.id] = "done"
    /\ sess' = [sess EXCEPT ![uiDrop.id] = NoSession]
    /\ active_tab' = AfterRemove(uiDrop.cont, active_tab, NTabs)
    /\ uiPc' = "idle"
    /\ uiDrop' = NoDrop
    /\ UNCHANGED sideVars
    /\ UNCHANGED <<tabs, show_shell_picker, settings_open, pty_sender,
                   next_tab_id, window_size, config, ptySize, ptyIn, proc,
                   nWritten, nRead, rpc, chanVars, outVars, emitted, delivered,
                   hist>>

\* ------------------------------------------------------- the PTY writer
\* Arc<Mutex<Box<dyn Write + Send>>>, shared by Session::send_bytes and
\* the engine's PtyEventProxy::send_event
Sites == {"send_bytes", "send_event"}

\* a call site is inside its critical section
Holding(site) == wpc[site] \in {"write", "flush"}

\* a call of send_bytes(bytes) / send_event(PtyWrite(text)) with n bytes
CallWrite(site, n) ==
    /\ wpc[site] = "idle"
    /\ wCalls[site] < MaxCalls
    /\ wCalls' = [wCalls EXCEPT ![site] = @ + 1]
    /\ wLeft' = [wLeft EXCEPT ![site] = n]
    /\ wpc' = [wpc EXCEPT ![site] = "lock"]
    /\ UNCHANGED <<wHolder, wOut, mainVars, aliveVars, keyVars, colourVars, cellVars,
                   atlasVars,
                   bufVars,
                   engineVars,
                   limitVars>>

\* a lock that is granted while another guard is alive
LockWriterUnguarded(site) ==
    /\ wpc[site] = "lock"
    /\ wHolder' = site
    /\ wpc' = [wpc EXCEPT ![site] = "write"]
    /\ UNCHANGED <<wLeft, wCalls, wOut, mainVars, aliveVars, keyVars, colourVars, cellVars,
                   atlasVars,
                   bufVars,
                   engineVars,
                   limitVars>>

\* self.writer.lock(): returns once no other guard is alive
LockWriter(site) ==
    /\ wpc[site] = "lock"
    /\ wHolder = "none"
    /\ wHolder' = site
    /\ wpc' = [wpc EXCEPT ![site] = "write"]
    /\ UNCHANGED <<wLeft, wCalls, wOut, mainVars, aliveVars, keyVars, colourVars, cellVars,
                   atlasVars,
                   bufVars,
                   engineVars,
                   limitVars>>

\* the next k bytes of the call, each tagged with its call and with the
\* number of bytes that were still to write
Written(site, k) ==
    [j \in 1..k |-> <<site, wCalls[site], wLeft[site] - j + 1>>]

\* guard.write_all(bytes): one write of the loop takes k bytes
WriteSome(site, k) ==
    /\ wpc[site] = "write"
    /\ k <= wLeft[site]
    /\ wOut' = wOut \o Written(site, k)
    /\ wLeft' = [wLeft EXCEPT ![site] = @ - k]
    /\ wpc' = [wpc EXCEPT ![site] = IF wLeft[site] = k THEN "flush" ELSE "write"]
    /\ UNCHANGED <<wHolder, wCalls, mainVars, aliveVars, keyVars, colourVars, cellVars,
                   atlasVars,
                   bufVars,
                   engineVars,
                   limitVars>>

\* a write of the loop fails: send_bytes returns the error (and_then skips
\* the flush, the guard is dropped); send_event ignores it and flushes
WriteFails(site) ==
    /\ wpc[site] = "write"
    /\ wLeft' = [wLeft EXCEPT ![site] = 0]
    /\ IF site = "send_bytes"
       THEN /\ wpc' = [wpc EXCEPT ![site] = "idle"]
            /\ wHolder' = "none"
       ELSE /\ wpc' = [wpc EXCEPT ![site] = "flush"]
            /\ UNCHANGED wHolder
    /\ UNCHANGED <<wCalls, wOut, mainVars, aliveVars, keyVars, colourVars, cellVars,
                   atlasVars,
                   bufVars,
                   engineVars,
                   limitVars>>

\* guard.flush(), then the guard goes out of scope
FlushWriter(site) ==
    /\ wpc[site] = "flush"
    /\ wHolder' = "none"
    /\ wpc' = [wpc EXCEPT ![site] = "idle"]
    /\ UNCHANGED <<wLeft, wCalls, wOut, mainVars, aliveVars, keyVars, colourVars, cellVars,
                   atlasVars,
                   bufVars,
                   engineVars,
                   limitVars>>

\* ------------------------------------------------------ Session::is_alive
\* what child.try_wait() can return for a process in the given state
PollOutcomes(state) ==
    IF state = "running" THEN {"Ok(None)", "Err"} ELSE {"Ok(Some)", "Err"}

\* an is_alive that takes a failed poll for a running child
is_alive_unless_exited(child, poll) ==
    IF child
    THEN CASE poll = "Ok(Some)" -> FALSE
           [] poll = "Ok(None)" -> TRUE
           [] OTHER -> TRUE
    ELSE FALSE

\* Session::is_alive
is_alive(child, poll) ==
    IF child
    THEN CASE poll = "Ok(Some)" -> FALSE
           [] poll = "Ok(None)" -> TRUE
           [] OTHER -> FALSE
    ELSE FALSE

\* a call of is_alive on a live Session
IsAliveCall(poll) ==
    /\ Len(aLog) < MaxPolls
    /\ aChild
    /\ poll \in PollOutcomes(aProc)
    /\ aLog' = Append(aLog, <<aProc, poll, is_alive(aChild, poll)>>)
    /\ UNCHANGED <<aChild, aProc, mainVars, writerVars, keyVars, colourVars, cellVars,
                   atlasVars,
                   bufVars,
                   engineVars,
                   limitVars>>

\* the child process exits
AliveChildExit ==
    /\ aProc = "running"
    /\ aProc' = "exited"
    /\ UNCHANGED <<aChild, aLog, mainVars, writerVars, keyVars, colourVars, cellVars,
                   atlasVars,
                   bufVars,
                   engineVars,
                   limitVars>>

\* Session::drop takes the child handle; the Session is gone afterwards
AliveDrop ==
    /\ aChild
    /\ aChild' = FALSE
    /\ aProc' = "exited"
    /\ UNCHANGED <<aLog, mainVars, writerVars, keyVars, colourVars, cellVars,
                   atlasVars,
                   bufVars,
                   engineVars,
                   limitVars>>

\* ------------------------------------------------------- the key encoder
\* TerminalTab::handle_key and key_to_bytes (src/gui/tab.rs:87-153).
\* A &str is the sequence of its UTF-8 bytes; a Vec<u8> is a sequence of
\* bytes; an Option is <<"Some", value>> or <<"None", <<>>>>.
None == <<"None", <<>>>>
Some(v) == <<"Some", v>>
\* the thread has panicked (arithmetic overflow in a debug build)
Panicked == <<"panic", <<>>>>
\* key_to_bytes was not evaluated
NotCalled == <<"uncalled", <<>>>>

\* iced::keyboard::Modifiers
ModifierBits == {"SHIFT", "CTRL", "ALT", "LOGO"}
\* Modifiers::shift / Modifiers::control
shift(modifiers) == "SHIFT" \in modifiers
control(modifiers) == "CTRL" \in modifiers

\* the Named keys the encoder lists
TableKeys ==
    {"Enter", "Backspace", "Tab", "Escape", "ArrowUp", "ArrowDown",
     "ArrowRight", "ArrowLeft", "Home", "End", "Delete", "PageUp",
     "PageDown", "Insert", "F1", "F2", "F3", "F4", "F5", "F6", "F7", "F8",
     "F9", "F10", "F11", "F12", "Space"}
\* Named keys it does not list
OtherNamed == {"CapsLock", "Shift", "F13"}

NamedKey(name) == [kind |-> "Named", name |-> name, c |-> <<>>]
CharacterKey(c) == [kind |-> "Character", name |-> "", c |-> c]
UnidentifiedKey == [kind |-> "Unidentified", name |-> "", c |-> <<>>]

\* strings, as UTF-8: "", a, A, z, Z, 1, @, [, `, {, e-acute, a Hangul
\* syllable, ab
Strs ==
    {<<>>, <<97>>, <<65>>, <<122>>, <<90>>, <<49>>, <<64>>, <<91>>, <<96>>,
     <<123>>, <<195, 169>>, <<237, 149, 156>>, <<97, 98>>}
\* the composed texts a key press carries
Texts == {None} \cup {Some(t) : t \in {<<>>, <<97>>, <<65>>, <<195, 169>>,
                                        <<237, 149, 156>>}}

\* c.chars().next(): the first code point of a str, or -1 for None
chars_next(c) ==
    IF c = <<>> THEN -1
    ELSE IF c[1] < 128 THEN c[1]
    ELSE IF c[1] < 224 THEN (c[1] - 192) * 64 + (c[2] - 128)
    ELSE IF c[1] < 240
         THEN (c[1] - 224) * 4096 + (c[2] - 128) * 64 + (c[3] - 128)
    ELSE (c[1] - 240) * 262144 + (c[2] - 128) * 4096
             + (c[3] - 128) * 64 + (c[4] - 128)

\* char::to_ascii_uppercase
to_ascii_uppercase(ch) == IF ch >= 97 /\ ch <= 122 THEN ch - 32 ELSE ch

\* a test that lets every ASCII character through
is_ascii(ch) == ch >= 0 /\ ch < 128

\* char::is_ascii_alphabetic
is_ascii_alphabetic(ch) == (ch >= 65 /\ ch <= 90) \/ (ch >= 97 /\ ch <= 122)

\* vec![(upper as u8) - b'A' + 1], in u8 arithmetic
control_byte(upper) ==
    LET u == upper % 256
    IN IF u < 65 \/ u - 65 + 1 > 255 THEN Panicked ELSE Some(<<u - 65 + 1>>)

\* Tab that does not look at Shift
tab_without_shift(modifiers) == Some(<<9>>)

\* the arm Named::Tab
tab_to_bytes(modifiers) ==
    IF shift(modifiers) THEN Some(<<27, 91, 90>>) ELSE Some(<<9>>)

\* the arm Key::Named(named) => match named { ... }
named_to_bytes(named, modifiers) ==
    CASE named = "Enter" -> Some(<<13>>)
      [] named = "Backspace" -> Some(<<127>>)
      [] named = "Tab" -> tab_to_bytes(modifiers)
      [] named = "Escape" -> Some(<<27>>)
      [] named = "ArrowUp" -> Some(<<27, 91, 65>>)
      [] named = "ArrowDown" -> Some(<<27, 91, 66>>)
      [] named = "ArrowRight" -> Some(<<27, 91, 67>>)
      [] named = "ArrowLeft" -> Some(<<27, 91, 68>>)
      [] named = "Home" -> Some(<<27, 91, 72>>)
      [] named = "End" -> Some(<<27, 91, 70>>)
      [] named = "Delete" -> Some(<<27, 91, 51, 126>>)
      [] named = "PageUp" -> Some(<<27, 91, 53, 126>>)
      [] named = "PageDown" -> Some(<<27, 91, 54, 126>>)
      [] named = "Insert" -> Some(<<27, 91, 50, 126>>)
      [] named = "F1" -> Some(<<27, 79, 80>>)
      [] named = "F2" -> Some(<<27, 79, 81>>)
      [] named = "F3" -> Some(<<27, 79, 82>>)
      [] named = "F4" -> Some(<<27, 79, 83>>)
      [] named = "F5" -> Some(<<27, 91, 49, 53, 126>>)
      [] named = "F6" -> Some(<<27, 91, 49, 55, 126>>)
      [] named = "F7" -> Some(<<27, 91, 49, 56, 126>>)
      [] named = "F8" -> Some(<<27, 91, 49, 57, 126>>)
      [] named = "F9" -> Some(<<27, 91, 50, 48, 126>>)
      [] named = "F10" -> Some(<<27, 91, 50, 49, 126>>)
      [] named = "F11" -> Some(<<27, 91, 50, 51, 126>>)
      [] named = "F12" -> Some(<<27, 91, 50, 52, 126>>)
      [] named = "Space" ->
            IF control(modifiers) THEN Some(<<0>>) ELSE Some(<<32>>)
      [] OTHER -> None

\* the control byte of the character as typed
control_char_as_typed(c) ==
    LET ch == chars_next(c)
    IN IF ch = -1 THEN None
       ELSE IF is_ascii_alphabetic(ch) THEN control_byte(ch) ELSE None

\* the arm Key::Character(c) if modifiers.control()
control_char_to_bytes(c) ==
    LET ch == chars_next(c)
    IN IF ch = -1 THEN None
       ELSE LET upper == to_ascii_uppercase(ch)
            IN IF is_ascii_alphabetic(upper) THEN control_byte(upper)
               ELSE None

\* the key's own string in place of the composed text
character_as_key(c, text) == Some(c)

\* the arm Key::Character(_) => text.map(|t| t.as_bytes().to_vec())
character_to_bytes(c, text) ==
    IF text = None THEN None ELSE Some(text[2])

\* TerminalTab::key_to_bytes
key_to_bytes(key, modifiers, text) ==
    IF key.kind = "Named" THEN named_to_bytes(key.name, modifiers)
    ELSE IF key.kind = "Character" /\ control(modifiers)
         THEN control_char_to_bytes(key.c)
    ELSE IF key.kind = "Character" THEN character_to_bytes(key.c, text)
    ELSE None

\* the key presses a tab may be given
KeyInputs ==
    {NamedKey(name) : name \in TableKeys \cup OtherNamed}
        \cup {CharacterKey(c) : c \in Strs} \cup {UnidentifiedKey}

\* a tab with a live or a failed session is about to be given a key
InitKeys ==
    /\ kKey \in KeyInputs
    /\ kMods \in SUBSET ModifierBits
    /\ kText \in Texts
    /\ kTab \in {[session |-> "Active"], [session |-> "Failed"]}
    /\ kPc = "pending"
    /\ kRet = NotCalled
    /\ kSent = <<>>
    /\ kLogged = FALSE

\* no key press is under way
KeysIdle ==
    /\ kKey = UnidentifiedKey
    /\ kMods = {}
    /\ kText = None
    /\ kTab = [session |-> "Failed"]
    /\ kPc = "none"
    /\ kRet = NotCalled
    /\ kSent = <<>>
    /\ kLogged = FALSE

\* TerminalTab::handle_key(key, modifiers, text); send_bytes returns Ok or
\* Err, and a panic in key_to_bytes ends the call
handle_key ==
    /\ kPc = "pending"
    /\ kPc' = "done"
    /\ IF kTab.session = "Active"
       THEN LET bytes == key_to_bytes(kKey, kMods, kText)
            IN /\ kRet' = bytes
               /\ IF bytes[1] = "Some"
                  THEN /\ kSent' = Append(kSent, bytes[2])
                       /\ \E ok \in BOOLEAN : kLogged' = ~ok
                  ELSE UNCHANGED <<kSent, kLogged>>
       ELSE UNCHANGED <<kRet, kSent, kLogged>>
    /\ UNCHANGED <<kKey, kMods, kText, kTab>>
    /\ UNCHANGED <<mainVars, writerVars, aliveVars, colourVars, cellVars,
                   atlasVars,
                   bufVars,
                   engineVars,
                   limitVars>>

\* --------------------------------------------------- the colour resolver
\* resolve_rgb, TerminalTheme::indexed_color and named_color, dim_rgb and
\* xterm_component (src/terminal.rs:158-214, 414-503).  An Rgb is
\* <<r, g, b>> with channels in 0..255.

\* the result of a u8 operation that left 0..255
Overflow == -1000
u8(x) == IF x \in 0..255 THEN x ELSE Overflow

DEFAULT_FOREGROUND == <<205, 214, 244>>
DEFAULT_BACKGROUND == <<30, 30, 46>>
DEFAULT_CURSOR == <<137, 180, 250>>
DEFAULT_ANSI ==
    << <<0, 0, 0>>, <<205, 0, 0>>, <<0, 205, 0>>, <<205, 205, 0>>,
       <<0, 0, 238>>, <<205, 0, 205>>, <<0, 205, 205>>, <<229, 229, 229>>,
       <<127, 127, 127>>, <<255, 0, 0>>, <<0, 255, 0>>, <<255, 255, 0>>,
       <<92, 92, 255>>, <<255, 0, 255>>, <<0, 255, 255>>, <<255, 255, 255>> >>

\* TerminalTheme::default(), with the opacity in hundredths
DefaultTheme ==
    [foreground |-> DEFAULT_FOREGROUND, background |-> DEFAULT_BACKGROUND,
     cursor |-> DEFAULT_CURSOR, ansi |-> DEFAULT_ANSI,
     background_opacity |-> 100]

\* alacritty_terminal::term::cell::Flags, as the set of the bits that are
\* set.  DIM_BOLD is the two bits DIM and BOLD together.
FlagBits == {"INVERSE", "BOLD", "DIM", "HIDDEN", "UNDERLINE"}
INVERSE == {"INVERSE"}
BOLD == {"BOLD"}
DIM == {"DIM"}
DIM_BOLD == {"DIM", "BOLD"}
HIDDEN == {"HIDDEN"}
ALL_UNDERLINES == {"UNDERLINE"}
\* Flags::intersects / Flags::contains
intersects(flags, other) == flags \cap other # {}
contains(flags, other) == other \subseteq flags

\* vte::ansi::Color
SpecColor(rgb) == [kind |-> "Spec", index |-> 0, rgb |-> rgb, named |-> ""]
Indexed(index) ==
    [kind |-> "Indexed", index |-> index, rgb |-> <<0, 0, 0>>, named |-> ""]
Named(named) ==
    [kind |-> "Named", index |-> 0, rgb |-> <<0, 0, 0>>, named |-> named]

\* the NamedColors of the model
Nameds ==
    {"Foreground", "Background", "Cursor", "Red", "BrightRed", "DimRed",
     "BrightForeground", "DimForeground"}

\* NamedColor as usize
named_index(named) ==
    CASE named = "Red" -> 1
      [] named = "BrightRed" -> 9
      [] named = "Foreground" -> 256
      [] named = "Background" -> 257
      [] named = "Cursor" -> 258
      [] named = "DimRed" -> 260
      [] named = "BrightForeground" -> 267
      [] named = "DimForeground" -> 268

\* NamedColor::to_dim / NamedColor::to_bright
to_dim(named) ==
    CASE named = "Red" -> "DimRed"
      [] named = "Foreground" -> "DimForeground"
      [] named = "BrightRed" -> "Red"
      [] named = "BrightForeground" -> "Foreground"
      [] OTHER -> named
to_bright(named) ==
    CASE named = "Red" -> "BrightRed"
      [] named = "Foreground" -> "BrightForeground"
      [] named = "DimRed" -> "Red"
      [] named = "DimForeground" -> "Foreground"
      [] OTHER -> named

\* the terminal's Colors: at most one entry is Some
NoOverride == [at |-> -1, rgb |-> <<0, 0, 0>>]
Override(at, rgb) == [at |-> at, rgb |-> rgb]
\* colors[index]
colors_at(colors, index) ==
    IF colors.at = index THEN Some(colors.rgb) ELSE None
\* Option::unwrap_or_else
unwrap_or_else(option, otherwise) ==
    IF option[1] = "Some" THEN option[2] ELSE otherwise

\* scaling that drops the fraction
dim_channel_truncated(x) == (2 * x) \div 3

\* (f32::from(x) * scale).round().clamp(0.0, 255.0) as u8 with scale 2/3:
\* 2x/3 is a whole number or a third away from one, so the f32 product
\* rounds as the exact quotient does, half away from zero
dim_channel(x) ==
    LET rounded == (4 * x + 3) \div 6
    IN IF rounded < 0 THEN 0 ELSE IF rounded > 255 THEN 255 ELSE rounded

\* dim_rgb
dim_rgb(rgb) ==
    <<dim_channel(rgb[1]), dim_channel(rgb[2]), dim_channel(rgb[3])>>

\* xterm_component
xterm_component(value) ==
    CASE value = 0 -> 0
      [] value = 1 -> 95
      [] value = 2 -> 135
      [] value = 3 -> 175
      [] value = 4 -> 215
      [] OTHER -> 255

\* a ramp of 24 steps of 11 from 8
grey_level_steep(index) == u8(8 + u8(u8(index - 232) * 11))

\* let level = 8 + (index - 232) * 10, in u8
grey_level(index) == u8(8 + u8(u8(index - 232) * 10))

\* TerminalTheme::indexed_color
indexed_color(theme, index) ==
    IF index \in 0..15 THEN theme.ansi[index + 1]
    ELSE IF index \in 16..231
         THEN LET idx == u8(index - 16)
                  r == idx \div 36
                  g == (idx \div 6) % 6
                  b == idx % 6
              IN <<xterm_component(r), xterm_component(g),
                   xterm_component(b)>>
    ELSE LET level == grey_level(index)
         IN <<level, level, level>>

\* TerminalTheme::named_color
named_color(theme, named) ==
    CASE named \in {"Foreground", "BrightForeground"} -> theme.foreground
      [] named = "DimForeground" -> dim_rgb(theme.foreground)
      [] named = "Background" -> theme.background
      [] named = "Cursor" -> theme.cursor
      [] named = "Red" -> theme.ansi[2]
      [] named = "BrightRed" -> theme.ansi[10]
      [] named = "DimRed" -> dim_rgb(theme.ansi[2])

\* resolve_rgb
resolve_rgb(color, colors, theme, flags, apply_intensity) ==
    LET is_dim == apply_intensity /\ intersects(flags, DIM \cup DIM_BOLD)
        is_bold == apply_intensity /\ intersects(flags, BOLD \cup DIM_BOLD)
    IN CASE color.kind = "Spec" ->
               IF is_dim THEN dim_rgb(color.rgb) ELSE color.rgb
         [] color.kind = "Indexed" ->
               LET index == IF is_bold /\ color.index < 8
                            THEN IF color.index + 8 > 255 THEN 255
                                 ELSE color.index + 8
                            ELSE color.index
                   base == unwrap_or_else(colors_at(colors, index),
                                          indexed_color(theme, index))
               IN IF is_dim THEN dim_rgb(base) ELSE base
         [] color.kind = "Named" ->
               LET named == IF is_dim THEN to_dim(color.named)
                            ELSE IF is_bold THEN to_bright(color.named)
                            ELSE color.named
               IN unwrap_or_else(colors_at(colors, named_index(named)),
                                 named_color(theme, named))

\* explicit colours: the greys, a ramp against its mirror image, and the
\* darkest colours
SpecRgbs ==
    {<<x, x, x>> : x \in 0..255} \cup {<<x, 0, 255 - x>> : x \in 0..255}
        \cup {<<r, g, b>> : r \in 0..3, g \in 0..3, b \in 0..3}

ColorInputs ==
    {Indexed(index) : index \in 0..255} \cup {SpecColor(rgb) : rgb \in SpecRgbs}
        \cup {Named(named) : named \in Nameds}

\* a colour of a cell is about to be resolved
InitColour ==
    /\ rColor \in ColorInputs
    /\ rFlags \in SUBSET (BOLD \cup DIM)
    /\ rApply \in BOOLEAN
    /\ rColors \in {NoOverride, Override(1, <<1, 2, 3>>),
                    Override(9, <<4, 5, 6>>)}
    /\ rPc = "pending"
    /\ rOut = <<>>
    /\ dChain = <<>>

\* no colour is being resolved
ColourIdle ==
    /\ rColor = Indexed(0)
    /\ rFlags = {}
    /\ rApply = FALSE
    /\ rColors = NoOverride
    /\ rPc = "none"
    /\ rOut = <<>>
    /\ dChain = <<>>

\* resolve_rgb(color, colors, &theme, flags, apply_intensity)
Resolve ==
    /\ rPc = "pending"
    /\ rPc' = "done"
    /\ rOut' = resolve_rgb(rColor, rColors, DefaultTheme, rFlags, rApply)
    /\ UNCHANGED <<rColor, rFlags, rApply, rColors, dChain>>
    /\ UNCHANGED <<mainVars, writerVars, aliveVars, keyVars, cellVars,
                   atlasVars,
                   bufVars,
                   engineVars,
                   limitVars>>

\* dim_rgb applied to an explicit colour, then to its own result
Dim ==
    /\ rColor.kind = "Spec"
    /\ Len(dChain) < MaxDims
    /\ dChain' = Append(dChain, dim_rgb(IF dChain = <<>> THEN rColor.rgb
                                        ELSE dChain[Len(dChain)]))
    /\ UNCHANGED <<rColor, rFlags, rApply, rColors, rPc, rOut>>
    /\ UNCHANGED <<mainVars, writerVars, aliveVars, keyVars, cellVars,
                   atlasVars,
                   bufVars,
                   engineVars,
                   limitVars>>

\* ------------------------------------------------------ the cell builder
\* TerminalEngine::build_cells_into (src/terminal.rs:315-411).  A colour
\* [f32; 4] is <<r, g, b, a>> with the linear channels in ten-thousandths
\* and the alpha in hundredths.

\* the table SRGB_TO_LINEAR, in ten-thousandths
SRGB_TO_LINEAR ==
    <<
       0, 3, 6, 9, 12, 15, 18, 21, 24, 27, 30, 33,
       37, 40, 44, 48, 52, 56, 60, 65, 70, 75, 80, 86,
       91, 97, 103, 110, 116, 123, 130, 137, 144, 152, 160, 168,
       176, 185, 194, 203, 212, 222, 232, 242, 252, 262, 273, 284,
       296, 307, 319, 331, 343, 356, 369, 382, 395, 409, 423, 437,
       452, 467, 482, 497, 513, 529, 545, 561, 578, 595, 612, 630,
       648, 666, 685, 704, 723, 742, 762, 782, 802, 823, 844, 865,
       887, 908, 931, 953, 976, 999, 1022, 1046, 1070, 1095, 1119, 1144,
       1170, 1195, 1221, 1248, 1274, 1301, 1329, 1356, 1384, 1413, 1441, 1470,
       1500, 1529, 1559, 1590, 1620, 1651, 1683, 1714, 1746, 1779, 1812, 1845,
       1878, 1912, 1946, 1981, 2016, 2051, 2086, 2122, 2159, 2195, 2232, 2270,
       2307, 2346, 2384, 2423, 2462, 2502, 2542, 2582, 2623, 2664, 2705, 2747,
       2789, 2831, 2874, 2918, 2961, 3005, 3050, 3095, 3140, 3185, 3231, 3278,
       3325, 3372, 3419, 3467, 3515, 3564, 3613, 3663, 3712, 3763, 3813, 3864,
       3916, 3968, 4020, 4072, 4125, 4179, 4233, 4287, 4342, 4397, 4452, 4508,
       4564, 4621, 4678, 4735, 4793, 4851, 4910, 4969, 5029, 5089, 5149, 5210,
       5271, 5333, 5395, 5457, 5520, 5583, 5647, 5711, 5776, 5841, 5906, 5972,
       6038, 6105, 6172, 6240, 6308, 6376, 6445, 6514, 6584, 6654, 6724, 6795,
       6867, 6939, 7011, 7084, 7157, 7231, 7305, 7379, 7454, 7529, 7605, 7682,
       7758, 7835, 7913, 7991, 8070, 8148, 8228, 8308, 8388, 8469, 8550, 8632,
       8714, 8796, 8879, 8963, 9047, 9131, 9216, 9301, 9387, 9473, 9560, 9647,
       9734, 9823, 9911, 10000
    >>
\* srgb_u8_to_linear
srgb_u8_to_linear(value) == SRGB_TO_LINEAR[value + 1]

\* rgb_to_rgba
rgb_to_rgba(rgb, alpha) ==
    <<srgb_u8_to_linear(rgb[1]), srgb_u8_to_linear(rgb[2]),
      srgb_u8_to_linear(rgb[3]), alpha>>

\* the alpha 1.0, in hundredths
Opaque == 100
\* the channel 1.0, in ten-thousandths
Full == 10000

\* TerminalTheme::from_config: the default colours and a configured
\* background opacity
ThemeOf(opacity) == [DefaultTheme EXCEPT !.background_opacity = opacity]

\* the columns of the terminal whose content is shown
TermColumns == 2

\* a cell of the terminal's grid
GridCell(c, fg, bg, flags) == [c |-> c, fg |-> fg, bg |-> bg, flags |-> flags]
BlankCell == GridCell(" ", Named("Foreground"), Named("Background"), {})

\* idx(row, col, cols), counted from 1
idx(row, col, cols) == row * cols + col + 1

\* the cells pushed before the content is read
default_cells(theme, size) ==
    [i \in 1..(size.lines * size.columns) |->
        [ch |-> " ", col |-> (i - 1) % size.columns,
         row |-> (i - 1) \div size.columns,
         fg |-> rgb_to_rgba(theme.foreground, Opaque),
         bg |-> rgb_to_rgba(theme.background, theme.background_opacity),
         underline |-> FALSE]]

\* the slot written with HIDDEN looked at before INVERSE
slot_hidden_first(cell, row, col, colors, theme) ==
    LET fg_rgb == resolve_rgb(cell.fg, colors, theme, cell.flags, TRUE)
        bg_rgb == resolve_rgb(cell.bg, colors, theme, cell.flags, FALSE)
        hidden == contains(cell.flags, HIDDEN)
        fg1 == IF hidden THEN rgb_to_rgba(bg_rgb, theme.background_opacity)
               ELSE rgb_to_rgba(fg_rgb, Opaque)
        bg1 == rgb_to_rgba(bg_rgb, theme.background_opacity)
        inverse == contains(cell.flags, INVERSE)
    IN [ch |-> cell.c, col |-> col, row |-> row,
        fg |-> IF inverse THEN bg1 ELSE fg1,
        bg |-> IF inverse THEN fg1 ELSE bg1,
        underline |-> intersects(cell.flags, ALL_UNDERLINES)]

\* the slot written for one cell of display_iter (lines 348-380)
slot_of(cell, row, col, colors, theme) ==
    LET fg_rgb0 == resolve_rgb(cell.fg, colors, theme, cell.flags, TRUE)
        bg_rgb0 == resolve_rgb(cell.bg, colors, theme, cell.flags, FALSE)
        inverse == contains(cell.flags, INVERSE)
        fg_rgb == IF inverse THEN bg_rgb0 ELSE fg_rgb0
        bg_rgb == IF inverse THEN fg_rgb0 ELSE bg_rgb0
        fg0 == rgb_to_rgba(fg_rgb, Opaque)
        bg == rgb_to_rgba(bg_rgb, theme.background_opacity)
        fg == IF contains(cell.flags, HIDDEN) THEN bg ELSE fg0
    IN [ch |-> cell.c, col |-> col, row |-> row, fg |-> fg, bg |-> bg,
        underline |-> intersects(cell.flags, ALL_UNDERLINES)]

\* the loop over display_iter (lines 343-383); the points of the grid are
\* distinct and, with no scrollback shown, point_to_viewport returns them
content_cells(cells, grid, colors, theme, size) ==
    [i \in DOMAIN cells |->
        IF \E k \in DOMAIN grid :
               /\ grid[k].row < size.lines /\ grid[k].col < size.columns
               /\ idx(grid[k].row, grid[k].col, size.columns) = i
        THEN LET k == CHOOSE k \in DOMAIN grid :
                          /\ grid[k].row < size.lines
                          /\ grid[k].col < size.columns
                          /\ idx(grid[k].row, grid[k].col, size.columns) = i
             IN slot_of(grid[k].cell, grid[k].row, grid[k].col, colors, theme)
        ELSE cells[i]]

\* cursor.point.line.0 as usize
as_usize(line) == IF line < 0 THEN USIZE_MAX ELSE line

\* a cursor that swaps the colours whatever the background alpha
cursor_slot_swapped(slot) == [slot EXCEPT !.fg = slot.bg, !.bg = slot.fg]

\* the cursor's slot (lines 390-408)
cursor_slot(slot) ==
    LET fg == slot.fg
        bg == slot.bg
    IN IF bg[4] > 0
       THEN [slot EXCEPT !.fg = bg, !.bg = fg]
       ELSE LET luma == 2126 * fg[1] + 7152 * fg[2] + 722 * fg[3]
                cursor_fg == IF luma > 5000 * Full
                             THEN <<0, 0, 0, Opaque>>
                             ELSE <<Full, Full, Full, Opaque>>
                cursor_bg == <<fg[1], fg[2], fg[3], Opaque>>
            IN [slot EXCEPT !.fg = cursor_fg, !.bg = cursor_bg]

\* the cursor overlay (lines 385-410)
cursor_overlay(cells, cursor, size) ==
    IF cursor.shape # "Hidden"
    THEN LET cursor_col == cursor.column
             cursor_line == as_usize(cursor.line)
         IN IF cursor_line < size.lines /\ cursor_col < size.columns
            THEN LET i == idx(cursor_line, cursor_col, size.columns)
                 IN [cells EXCEPT ![i] = cursor_slot(cells[i])]
            ELSE cells
    ELSE cells

\* TerminalEngine::build_cells_into
build_cells(grid, cursor, colors, theme, size) ==
    cursor_overlay(
        content_cells(default_cells(theme, size), grid, colors, theme, size),
        cursor, size)

\* the content of a terminal of one line: any cell in column 0, a blank
\* cell in column 1
CellInputs ==
    {GridCell(c, fg, bg, flags) :
        c \in {"x", " "},
        fg \in {Named("Foreground"), Indexed(1),
                SpecColor(<<255, 255, 255>>), SpecColor(<<0, 0, 0>>)},
        bg \in {Named("Background"), Indexed(4), SpecColor(<<0, 0, 0>>)},
        flags \in SUBSET FlagBits}
GridOf(cell) ==
    <<[row |-> 0, col |-> 0, cell |-> cell],
      [row |-> 0, col |-> 1, cell |-> BlankCell]>>

\* the cursors: hidden, on either cell, below and above the viewport
Cursors ==
    {[shape |-> "Hidden", line |-> 0, column |-> 0],
     [shape |-> "Block", line |-> 0, column |-> 0],
     [shape |-> "Block", line |-> 0, column |-> 1],
     [shape |-> "Block", line |-> 1, column |-> 0],
     [shape |-> "Block", line |-> -1, column |-> 0]}

\* background opacities, in hundredths (sanitize_opacity keeps 0.0..1.0)
Opacities == {0, 50, 100}

\* an engine is about to build its cells
InitCells ==
    /\ gTheme \in {ThemeOf(opacity) : opacity \in Opacities}
    /\ gSize \in {[lines |-> 1, columns |-> columns] :
                     columns \in 1..TermColumns}
    /\ gGrid \in {GridOf(cell) : cell \in CellInputs}
    /\ gCursor \in Cursors
    /\ gColors = NoOverride
    /\ gPc = "pending"
    /\ gOut = <<>>

\* no engine is building cells
CellsIdle ==
    /\ gTheme = DefaultTheme
    /\ gSize = [lines |-> 1, columns |-> 1]
    /\ gGrid = <<>>
    /\ gCursor = [shape |-> "Hidden", line |-> 0, column |-> 0]
    /\ gColors = NoOverride
    /\ gPc = "none"
    /\ gOut = <<>>

\* self.build_cells_into(cells)
build_cells_into ==
    /\ gPc = "pending"
    /\ gPc' = "done"
    /\ gOut' = build_cells(gGrid, gCursor, gColors, gTheme, gSize)
    /\ UNCHANGED <<gTheme, gSize, gGrid, gCursor, gColors>>
    /\ UNCHANGED <<mainVars, writerVars, aliveVars, keyVars, colourVars,
                   atlasVars,
                   bufVars,
                   engineVars,
                   limitVars>>

\* -------------------------------------------------- instance buffers
\* src/src/gui/render/text.rs:381-400 and src/src/gui/render/bg.rs:168-207:
\* the instance buffer of a pipeline grows with the instances of a frame
\* instance_capacity: 64
InitialCapacity == 64

\* a buffer sized to the count
exact_size(n) == n

RECURSIVE pow2_from(_, _)
pow2_from(p, n) == IF p >= n THEN p ELSE pow2_from(2 * p, n)
\* usize::next_power_of_two
next_power_of_two(n) == pow2_from(1, n)

\* the capacity after a frame of `required` instances
instance_capacity(required, capacity) ==
    IF required > capacity
    THEN Max(next_power_of_two(required), InitialCapacity)
    ELSE capacity

\* the pipelines
Pipes == {"text", "bg"}
\* the instance counts of a frame
Counts == {0, 1, 64, 65, 128, 129, 300}

\* the count a pipeline sizes its buffer for: instance_len in the text
\* pipeline, instances.len().max(1) in the background pipeline
required_for(pipe, n) == IF pipe = "bg" THEN Max(n, 1) ELSE n

\* the capacity test and the reallocation of prepare_instances; buffer
\* counts the create_buffer calls
sized(b, required) ==
    [capacity |-> instance_capacity(required, b.capacity),
     buffer |-> IF required > b.capacity THEN b.buffer + 1 ELSE b.buffer,
     required |-> required]

\* TextPipelineData::new / BackgroundPipeline::new: 64 instances
BuffersIdle ==
    buffers = [pipe \in Pipes |->
                  [capacity |-> InitialCapacity, buffer |-> 0, required |-> 0]]

\* prepare_instances of a pipeline for a frame of n instances
PrepareInstances(pipe, n) ==
    /\ buffers' = [buffers EXCEPT ![pipe] = sized(@, required_for(pipe, n))]
    /\ UNCHANGED <<mainVars, writerVars, aliveVars, keyVars, colourVars,
                   cellVars, atlasVars,
                   engineVars,
                   limitVars>>

\* ------------------------------------------------------- the glyph atlas
\* src/src/gui/render/text.rs: the text pipeline of the terminal widget.
\* Lengths are whole pixels; a font size is held in thousandths of a pixel
\* and a cell height (the widget's height divided by its lines) in tenths.
ATLAS_INITIAL_SIZE == 2048
ATLAS_MAX_SIZE == 4096
ATLAS_PADDING == 1
\* FONT_SCALE_FACTOR = 0.85, times the 100 between tenths and thousandths
FONT_SCALE_FACTOR == 85
\* the font size 1.0 of `.max(1.0)`, in thousandths
MinFontPx == 1000
\* the 0.1 of ensure_font_size, in thousandths
FontTolerance == 100

\* frames prepared, and cells of one frame
MaxFrames == 2
MaxCells == 2

\* u32::MAX, held as the largest integer of the model; every length the
\* model draws is far below it
U32_MAX == USIZE_MAX
saturating_add(a, b) == IF a > U32_MAX - b THEN U32_MAX ELSE a + b

\* the characters of a frame: five with outlines of different shapes, one
\* small one, the space, one the font has no outline for ("zw") and one
\* whose outline has no height ("fl")
Chars == {"a", "b", "c", "d", "W", "M", "i", " ", "zw", "fl"}
\* the outline of a character at one em, in thousandths: <<width, height>>
EmBounds ==
    [ch \in Chars |->
        CASE ch = "a" -> <<750, 750>>
          [] ch = "b" -> <<750, 1400>>
          [] ch = "c" -> <<1400, 750>>
          [] ch = "d" -> <<1400, 1400>>
          [] ch = "W" -> <<2000, 2000>>
          [] ch = "M" -> <<3200, 500>>
          [] ch = "i" -> <<200, 200>>
          [] ch = "fl" -> <<300, 0>>
          [] OTHER -> <<0, 0>>]
\* the advance of a character at one em, in thousandths
EmAdvance ==
    [ch \in Chars |->
        CASE ch \in {"a", "b", "i"} -> 800
          [] ch \in {"c", "d"} -> 1500
          [] ch = "W" -> 2100
          [] ch = "M" -> 3300
          [] ch = "fl" -> 400
          [] OTHER -> 318]
\* scaled.h_advance(glyph_id) at scale px, in thousandths of a pixel
h_advance(ch, px) == (EmAdvance[ch] * (px \div 100)) \div 10
\* self.font.outline_glyph(glyph) is Some
outline_glyph(ch) == ch \notin {" ", "zw"}
\* (bounds.max - bounds.min).ceil() as u32 of the outline at scale px
px_bounds(ch, px) ==
    <<(EmBounds[ch][1] * (px \div 100) + 9999) \div 10000,
      (EmBounds[ch][2] * (px \div 100) + 9999) \div 10000>>

\* cell heights of the configuration, in tenths: 1600.0, 1600.1 and 800.0
\* pixels.  Glyphs of this size fill the atlas with a handful of
\* characters; the packer's arithmetic is the same at every scale.
CellHeights == {16000, 16001, 8000}

\* AtlasPacker::new(size), and the state reset(size) leaves
AtlasPacker(size) ==
    [size |-> size, cursor_x |-> 0, cursor_y |-> 0, row_height |-> 0]

\* a packer that never changes row
wrap_never(packer, width) == packer

\* a packer that starts a new row on top of the current one
wrap_on_top(packer, width) ==
    IF packer.cursor_x + width > packer.size
    THEN [packer EXCEPT !.cursor_x = 0, !.row_height = 0]
    ELSE packer

\* the row change of allocate
wrap_row(packer, width) ==
    IF packer.cursor_x + width > packer.size
    THEN [packer EXCEPT !.cursor_x = 0,
                        !.cursor_y = saturating_add(@, packer.row_height),
                        !.row_height = 0]
    ELSE packer

\* AtlasPacker::allocate(&mut self, width, height): what it returns and
\* the packer it leaves
allocate(packer, width, height) ==
    IF width > packer.size \/ height > packer.size
    THEN [ret |-> None, packer |-> packer]
    ELSE LET row == wrap_row(packer, width)
         IN  IF row.cursor_y + height > row.size
             THEN [ret |-> None, packer |-> row]
             ELSE [ret |-> Some(<<row.cursor_x, row.cursor_y>>),
                   packer |->
                       [row EXCEPT
                           !.cursor_x = saturating_add(@, width),
                           !.row_height = Max(@, height)]]

\* GlyphAtlas::new(device, size): a blank texture of size x size.  id
\* tells the textures apart; texture holds the glyph rectangles written
\* to it: [ch, px, x, y, w, h]
GlyphAtlas(id, size) ==
    [id |-> id, size |-> size, texture |-> {}, packer |-> AtlasPacker(size)]

\* no entry of the glyph cache
Vacant == [kind |-> "vacant"]
\* HashMap::new(), and the map clear() leaves
NoGlyphs == [ch \in Chars |-> Vacant]
\* GlyphInfo; uv in 4096ths of the texture side (sizes are 2048 and 4096)
GlyphInfo(uv_min, uv_max, wh, advance) ==
    [kind |-> "glyph", uv_min |-> uv_min, uv_max |-> uv_max, size |-> wh,
     advance |-> advance]
\* a zero-size entry that forgets the advance
empty_glyph_no_advance(advance) ==
    GlyphInfo(<<0, 0>>, <<0, 0>>, <<0, 0>>, 0)
\* the GlyphInfo of a glyph without outline or without area
empty_glyph(advance) == GlyphInfo(<<0, 0>>, <<0, 0>>, <<0, 0>>, advance)

\* origin as f32 / atlas_size
uv_of(x, atlas_size) == (x * ATLAS_MAX_SIZE) \div atlas_size

\* the pipeline: [atlas, glyphs, font_px, log].  log records the allocate
\* calls of the last step in order, the atlases the step built, and the
\* boxes the packer has handed out since it was last reset
Pipeline(a, g, px, l) == [atlas |-> a, glyphs |-> g, font_px |-> px, log |-> l]
NoLogged == [calls |-> <<>>, built |-> 0, boxes |-> {}]
AllocLogged(log, packer, width, height, r) ==
    [log EXCEPT
        !.calls = Append(@, [packer |-> packer, width |-> width,
                             height |-> height, ret |-> r.ret,
                             after |-> r.packer, boxes |-> log.boxes]),
        !.boxes = IF r.ret = None THEN @
                  ELSE @ \union {[x |-> r.ret[2][1], y |-> r.ret[2][2],
                                  w |-> width, h |-> height]}]
\* the log at the start of a step
NewStep(p) == [p EXCEPT !.log.calls = <<>>, !.log.built = 0]

\* an atlas that keeps its cache when it grows
rebuild_keeps_cache(p, new_size) ==
    [p EXCEPT !.atlas = GlyphAtlas(p.atlas.id + 1, new_size),
              !.log.built = @ + 1,
              !.log.boxes = {}]

\* rebuild_atlas(device, size)
rebuild_atlas(p, new_size) ==
    [p EXCEPT !.atlas = GlyphAtlas(p.atlas.id + 1, new_size),
              !.glyphs = NoGlyphs,
              !.log.built = @ + 1,
              !.log.boxes = {}]

\* self.atlas.packer.allocate(width, height), logged
packer_allocate(p, width, height) ==
    LET r == allocate(p.atlas.packer, width, height)
    IN  [ret |-> r.ret,
         p |-> [p EXCEPT !.atlas.packer = r.packer,
                         !.log = AllocLogged(@, p.atlas.packer, width, height, r)]]

\* an atlas that grows whenever it is full
grow_unbounded(p_size) == TRUE
\* self.atlas.size < ATLAS_MAX_SIZE
may_grow(p_size) == p_size < ATLAS_MAX_SIZE

\* allocate_in_atlas(device, width, height)
allocate_in_atlas(p, width, height) ==
    LET padded_width == saturating_add(width, ATLAS_PADDING * 2)
        padded_height == saturating_add(height, ATLAS_PADDING * 2)
        first == packer_allocate(p, padded_width, padded_height)
    IN  IF first.ret # None
        THEN first
        ELSE IF may_grow(first.p.atlas.size)
             THEN packer_allocate(
                      rebuild_atlas(first.p,
                          Min(first.p.atlas.size * 2, ATLAS_MAX_SIZE)),
                      padded_width, padded_height)
             ELSE first

\* two rectangles [x, y, w, h] share a pixel
Overlap(r, s) ==
    /\ r.x < s.x + s.w /\ s.x < r.x + r.w
    /\ r.y < s.y + s.h /\ s.y < r.y + r.h

\* queue.write_texture at (x, y) with extent w x h: the pixels of older
\* glyphs under the rectangle are gone
write_texture(texture, rect) ==
    {r \in texture : ~Overlap(r, rect)} \union {rect}

\* a cache that also remembers the glyphs it could not place
cache_failure(p, ch) ==
    [p EXCEPT !.glyphs[ch] = empty_glyph(h_advance(ch, p.font_px))]
\* the `?` of get_or_insert_glyph: nothing is cached
cache_nothing(p, ch) == p

\* get_or_insert_glyph(ch, device, queue): what it returns and the
\* pipeline it leaves
get_or_insert_glyph(p, ch) ==
    IF p.glyphs[ch] # Vacant
    THEN [ret |-> Some(p.glyphs[ch]), p |-> p]
    ELSE LET wh == px_bounds(ch, p.font_px)
             advance == h_advance(ch, p.font_px)
         IN  IF ~outline_glyph(ch) \/ wh[1] = 0 \/ wh[2] = 0
             THEN [ret |-> Some(empty_glyph(advance)),
                   p |-> [p EXCEPT !.glyphs[ch] = empty_glyph(advance)]]
             ELSE LET a == allocate_in_atlas(p, wh[1], wh[2])
                  IN  IF a.ret = None
                      THEN [ret |-> None, p |-> cache_nothing(a.p, ch)]
                      ELSE LET origin_x == a.ret[2][1] + ATLAS_PADDING
                               origin_y == a.ret[2][2] + ATLAS_PADDING
                               atlas_size == a.p.atlas.size
                               info ==
                                   GlyphInfo(
                                       <<uv_of(origin_x, atlas_size),
                                         uv_of(origin_y, atlas_size)>>,
                                       <<uv_of(origin_x + wh[1], atlas_size),
                                         uv_of(origin_y + wh[2], atlas_size)>>,
                                       wh, advance)
                               rect == [ch |-> ch, px |-> a.p.font_px,
                                        x |-> origin_x, y |-> origin_y,
                                        w |-> wh[1], h |-> wh[2]]
                           IN  [ret |-> Some(info),
                                p |-> [a.p EXCEPT
                                    !.glyphs[ch] = info,
                                    !.atlas.texture =
                                        write_texture(@, rect)]]

\* a comparison for equality
exactly_equal(a, b) == a = b

\* (a - b).abs() < 0.1
within_tolerance(a, b) ==
    (IF a >= b THEN a - b ELSE b - a) < FontTolerance
\* ensure_font_size(font_px)
ensure_font_size(p, px) ==
    IF within_tolerance(p.font_px, px)
    THEN p
    ELSE [p EXCEPT !.font_px = px,
                   !.glyphs = NoGlyphs,
                   !.atlas.packer = AtlasPacker(p.atlas.size),
                   !.log.boxes = {}]

\* (cell_size[1] * FONT_SCALE_FACTOR).max(1.0)
font_px_of(cell_height) == Max(cell_height * FONT_SCALE_FACTOR, MinFontPx)

\* GlyphInstance: cell stands for pos, the place of the cell on screen
GlyphInstance(cell, ch, info) ==
    [cell |-> cell, ch |-> ch, size |-> info.size,
     uv_min |-> info.uv_min, uv_max |-> info.uv_max]

\* TextPipelineData::new: an atlas of the initial size, no glyphs, font
\* size 0.0, nothing to draw
TextIdle ==
    /\ textPipe =
           Pipeline(GlyphAtlas(1, ATLAS_INITIAL_SIZE), NoGlyphs, 0, NoLogged)
    /\ frame = [pc |-> "idle", frames |-> 0, cells |-> 0,
                cell_height |-> 0, ch |-> " ", ret |-> NotCalled,
                seen |-> <<>>]
    /\ glyph_instances = <<>>
    /\ instance_buffer =
           [len |-> 0, data |-> <<>>, capacity |-> InitialCapacity]

\* prepare_instances(device, queue, cells, cell_size), up to the loop
BeginFrame(cell_height) ==
    /\ frame.pc = "idle"
    /\ frame.frames < MaxFrames
    /\ textPipe' = ensure_font_size(NewStep(textPipe),
                                    font_px_of(cell_height))
    /\ frame' = [frame EXCEPT !.pc = "cells", !.cells = 0,
                              !.cell_height = cell_height,
                              !.ch = " ", !.ret = NotCalled,
                              !.seen = <<>>]
    /\ glyph_instances' = <<>>
    /\ UNCHANGED instance_buffer
    /\ UNCHANGED <<mainVars, writerVars, aliveVars, keyVars, colourVars,
                   cellVars,
                   bufVars,
                   engineVars,
                   limitVars>>

\* one turn of `for cell in cells`, for a cell showing ch
FrameCell(ch) ==
    /\ frame.pc = "cells"
    /\ frame.cells < MaxCells
    /\ IF ch = " "
       THEN /\ textPipe' = NewStep(textPipe)
            /\ frame' = [frame EXCEPT
                             !.cells = @ + 1, !.ch = ch, !.ret = NotCalled,
                             !.seen = Append(@, [ch |-> ch,
                                                 ret |-> NotCalled])]
            /\ UNCHANGED glyph_instances
       ELSE LET g == get_or_insert_glyph(NewStep(textPipe), ch)
            IN  /\ textPipe' = g.p
                /\ frame' = [frame EXCEPT
                                 !.cells = @ + 1, !.ch = ch, !.ret = g.ret,
                                 !.seen = Append(@, [ch |-> ch,
                                                     ret |-> g.ret])]
                /\ glyph_instances' =
                       IF g.ret = None
                       THEN glyph_instances
                       ELSE IF g.ret[2].size[1] = 0 \/ g.ret[2].size[2] = 0
                            THEN glyph_instances
                            ELSE Append(glyph_instances,
                                     GlyphInstance(frame.cells + 1, ch,
                                                   g.ret[2]))
    /\ UNCHANGED instance_buffer
    /\ UNCHANGED <<mainVars, writerVars, aliveVars, keyVars, colourVars,
                   cellVars,
                   bufVars,
                   engineVars,
                   limitVars>>

\* prepare_instances, after the loop: the instances go to the buffer
EndFrame ==
    /\ frame.pc = "cells"
    /\ instance_buffer' =
           [len |-> Len(glyph_instances),
            data |-> IF glyph_instances # <<>> THEN glyph_instances
                     ELSE instance_buffer.data,
            capacity |-> instance_capacity(Len(glyph_instances),
                                           instance_buffer.capacity)]
    /\ frame' = [frame EXCEPT !.pc = "idle", !.frames = @ + 1]
    /\ textPipe' = NewStep(textPipe)
    /\ UNCHANGED glyph_instances
    /\ UNCHANGED <<mainVars, writerVars, aliveVars, keyVars, colourVars,
                   cellVars,
                   bufVars,
                   engineVars,
                   limitVars>>

\* ------------------------------------------------------- TerminalEngine
\* src/src/terminal.rs:237-411 and 505-534: one engine, the event proxy of
\* its Term, the Arc the cells cache holds and the snapshots consumers hold.
\* alacritty's Term is modelled by a grid that keeps what is written at the
\* cursor (no auto-wrap) and keeps its top-left cells when it is resized.

\* mutating calls and render_cells calls of one behaviour
MaxEngineCalls == 5
\* snapshots consumers hold at once
MaxHeld == 2

EngineSizes ==
    {[lines |-> 1, columns |-> 1], [lines |-> 1, columns |-> 2],
     [lines |-> 2, columns |-> 2]}
EngineThemes == {ThemeOf(100), ThemeOf(50)}
\* what the child writes: a printable character, or CSI 18 t (report the
\* size of the text area in characters)
EngineBytes == {"x", "CSI 18 t"}

\* num_lines: self.size.lines as u16
size_as_u16(n) == n % U16

\* Term::new(config, &size, proxy): a blank grid, the cursor at the origin
TermNew(size) ==
    [size |-> size,
     grid |-> [i \in 1..(size.lines * size.columns) |-> BlankCell],
     cursor |-> [shape |-> "Block", line |-> 0, column |-> 0]]

\* Term::resize
term_resize(term, new_size) ==
    [size |-> new_size,
     grid |-> [i \in 1..(new_size.lines * new_size.columns) |->
                 LET row == (i - 1) \div new_size.columns
                     col == (i - 1) % new_size.columns
                 IN IF row < term.size.lines /\ col < term.size.columns
                    THEN term.grid[idx(row, col, term.size.columns)]
                    ELSE BlankCell],
     cursor |-> [term.cursor EXCEPT
                   !.line = Min(term.cursor.line, new_size.lines - 1),
                   !.column = Min(term.cursor.column, new_size.columns - 1)]]

\* Processor::advance for a printable character
term_input(term, c) ==
    [term EXCEPT
       !.grid[idx(term.cursor.line, term.cursor.column, term.size.columns)] =
           GridCell(c, Named("Foreground"), Named("Background"), {}),
       !.cursor.column = Min(term.cursor.column + 1, term.size.columns - 1)]

\* renderable_content().display_iter
display_iter(term) ==
    [i \in 1..Len(term.grid) |->
        [row |-> (i - 1) \div term.size.columns,
         col |-> (i - 1) % term.size.columns,
         cell |-> term.grid[i]]]

\* PtyEventProxy::send_event(Event::TextAreaSizeRequest(formatter)): the
\* WindowSize handed to the formatter
text_area_size(proxy) ==
    [num_lines |-> size_as_u16(proxy.size.lines),
     num_cols |-> size_as_u16(proxy.size.columns)]

\* TerminalEngine::new(size, scrollback, writer, theme)
EngineNew(size, theme) ==
    [term |-> TermNew(size),
     proxy |-> [size |-> size],
     size |-> size,
     theme |-> theme,
     cells_cache |-> 0,
     cache_dirty |-> TRUE,
     cache_size |-> size]

\* Arc::new(Vec::new()) in cell 0; the other cells are not allocated
NoArc == [live |-> FALSE, data |-> <<>>]
ArcIds == 0..MaxHeld
ArcsNew == [a \in ArcIds |-> IF a = 0 THEN [live |-> TRUE, data |-> <<>>]
                             ELSE NoArc]

\* nothing has been asked of the engine
NoEngineLog ==
    [calls |-> 0, renders |-> 0, reused |-> 0, replies |-> <<>>,
     changed |-> FALSE,
     last |-> [arc |-> 0, data |-> <<>>, rebuilt |-> FALSE,
               changed |-> FALSE, in_place |-> FALSE, owners |-> 0,
               prev_arc |-> 0, prev_data |-> <<>>]]

\* Arc::strong_count
strong_count(a, cache, held) ==
    (IF cache = a THEN 1 ELSE 0)
    + Cardinality({i \in 1..Len(held) : held[i].arc = a})

\* a cache that is written in place whoever holds it
get_mut_always(cache, held) == TRUE

\* Arc::get_mut(&mut cache).is_some()
get_mut(cache, held) == strong_count(cache, cache, held) = 1

\* a cache rebuilt only when the size changed
stale_unless_resized(e) == e.cache_size # e.size

\* self.cache_dirty.get() || self.cache_size.get() != self.size
needs_rebuild(e) == e.cache_dirty \/ e.cache_size # e.size

\* what build_cells_into leaves in the vector it is given
engine_cells(e) ==
    build_cells(display_iter(e.term), e.term.cursor, NoOverride, e.theme,
                e.size)

\* an engine nobody uses
EngineIdle ==
    /\ engine = EngineNew([lines |-> 1, columns |-> 1], DefaultTheme)
    /\ arcs = ArcsNew
    /\ snapshots = <<>>
    /\ eLog = NoEngineLog

\* an engine created at any size with either theme
InitEngineAny ==
    /\ engine \in {EngineNew(size, theme) :
                      size \in EngineSizes, theme \in EngineThemes}
    /\ arcs = ArcsNew
    /\ snapshots = <<>>
    /\ eLog = NoEngineLog

EngineCalled == [eLog EXCEPT !.calls = @ + 1, !.changed = TRUE]

\* TerminalEngine::feed_bytes(bytes)
feed_bytes(bytes) ==
    /\ eLog.calls < MaxEngineCalls
    /\ IF bytes = "CSI 18 t"
       THEN /\ engine' = [engine EXCEPT !.cache_dirty = TRUE]
            /\ eLog' = [EngineCalled EXCEPT
                          !.replies = Append(@,
                              [ws |-> text_area_size(engine.proxy),
                               size |-> engine.size])]
       ELSE /\ engine' = [engine EXCEPT !.term = term_input(@, bytes),
                                        !.cache_dirty = TRUE]
            /\ eLog' = EngineCalled
    /\ UNCHANGED <<arcs, snapshots>>
    /\ UNCHANGED <<mainVars, writerVars, aliveVars, keyVars, colourVars,
                   cellVars, atlasVars, bufVars,
                   limitVars>>

\* TerminalEngine::resize(new_size)
resize(new_size) ==
    /\ eLog.calls < MaxEngineCalls
    /\ engine' = [engine EXCEPT !.size = new_size,
                                !.term = term_resize(@, new_size),
                                !.cache_dirty = TRUE]
    /\ eLog' = EngineCalled
    /\ UNCHANGED <<arcs, snapshots>>
    /\ UNCHANGED <<mainVars, writerVars, aliveVars, keyVars, colourVars,
                   cellVars, atlasVars, bufVars,
                   limitVars>>

\* TerminalEngine::set_theme(theme)
set_theme(theme) ==
    /\ eLog.calls < MaxEngineCalls
    /\ engine' = [engine EXCEPT !.theme = theme, !.cache_dirty = TRUE]
    /\ eLog' = EngineCalled
    /\ UNCHANGED <<arcs, snapshots>>
    /\ UNCHANGED <<mainVars, writerVars, aliveVars, keyVars, colourVars,
                   cellVars, atlasVars, bufVars,
                   limitVars>>

\* TerminalEngine::render_cells(): the Arc returned goes to a consumer
render_cells ==
    /\ eLog.calls < MaxEngineCalls
    /\ Len(snapshots) < MaxHeld
    /\ LET cache == engine.cells_cache
           rebuild == needs_rebuild(engine)
           in_place == rebuild /\ get_mut(cache, snapshots)
           fresh == CHOOSE a \in ArcIds :
                        /\ ~arcs[a].live
                        /\ \A b \in ArcIds : ~arcs[b].live => a <= b
           now == IF rebuild /\ ~in_place THEN fresh ELSE cache
       IN /\ arcs' = IF rebuild
                     THEN [arcs EXCEPT ![now] = [live |-> TRUE,
                                                 data |-> engine_cells(engine)]]
                     ELSE arcs
          /\ engine' = IF rebuild
                       THEN [engine EXCEPT !.cells_cache = now,
                                           !.cache_dirty = FALSE,
                                           !.cache_size = engine.size]
                       ELSE engine
          /\ snapshots' = Append(snapshots,
                                 [arc |-> now, seen |-> arcs'[now].data])
          /\ eLog' = [eLog EXCEPT
                        !.calls = @ + 1,
                        !.renders = @ + 1,
                        !.reused = IF rebuild THEN @ ELSE @ + 1,
                        !.changed = FALSE,
                        !.last = [arc |-> now, data |-> arcs'[now].data,
                                  rebuilt |-> rebuild,
                                  changed |-> eLog.changed,
                                  in_place |-> in_place,
                                  owners |-> strong_count(cache, cache,
                                                          snapshots),
                                  prev_arc |-> cache,
                                  prev_data |-> arcs[cache].data]]
    /\ UNCHANGED <<mainVars, writerVars, aliveVars, keyVars, colourVars,
                   cellVars, atlasVars, bufVars,
                   limitVars>>

\* a consumer drops the snapshot it holds
DropSnapshot(i) ==
    /\ i \in 1..Len(snapshots)
    /\ snapshots' = RemoveAt(snapshots, i - 1)
    /\ arcs' = LET a == snapshots[i].arc
               IN IF strong_count(a, engine.cells_cache, snapshots') = 0
                  THEN [arcs EXCEPT ![a] = NoArc]
                  ELSE arcs
    /\ UNCHANGED <<engine, eLog>>
    /\ UNCHANGED <<mainVars, writerVars, aliveVars, keyVars, colourVars,
                   cellVars, atlasVars, bufVars,
                   limitVars>>

\* ---------------------------------------------------------------- behaviour
NoHist == [eof |-> FALSE, ioerr |-> FALSE, dropped |-> FALSE,
           unrouted |-> FALSE]
NoLog == [bytes |-> <<>>, closed |-> 0, late |-> FALSE]

\* the component specifications at rest
\* the user opens MaxTabs tabs
FewTabs == tabLimit = MaxTabs

InitSide ==
    /\ wHolder = "none"
    /\ wpc = [site \in Sites |-> "idle"]
    /\ wLeft = [site \in Sites |-> 0]
    /\ wCalls = [site \in Sites |-> 0]
    /\ wOut = <<>>
    /\ aChild = TRUE
    /\ aProc = "running"
    /\ aLog = <<>>

\* App::new(config), before the subscription has run: no tabs, ids from 1,
\* window size taken from the config
InitApp(size, cell) ==
    /\ tabs = <<>>
    /\ active_tab = 0
    /\ show_shell_picker = FALSE
    /\ settings_open = FALSE
    /\ pty_sender = FALSE
    /\ next_tab_id = 1
    /\ config = [cell_width |-> cell[1], cell_height |-> cell[2],
                 window_width |-> size[1], window_height |-> size[2]]
    /\ window_size = size
    /\ uiPc = "idle"
    /\ uiDrop = NoDrop
    /\ sess = [id \in Ids |-> NoSession]
    /\ ptySize = [id \in Ids |-> <<0, 0>>]
    /\ ptyIn = [id \in Ids |-> 0]
    /\ proc = [id \in Ids |-> "none"]
    /\ nWritten = [id \in Ids |-> 0]
    /\ nRead = [id \in Ids |-> 0]
    /\ rpc = [id \in Ids |-> "none"]
    /\ chanQ = <<>>
    /\ chanParked = <<>>
    /\ rxOpen = TRUE
    /\ outQ = <<>>
    /\ fwdPc = "start"
    /\ outOpen = TRUE
    /\ emitted = [id \in Ids |-> NoLog]
    /\ delivered = [id \in Ids |-> NoLog]
    /\ hist = [id \in Ids |-> NoHist]

\* the default configuration: a 600 x 350 window
Init ==
    /\ InitApp(DefaultWindow, DefaultCell) /\ InitSide
    /\ KeysIdle /\ ColourIdle /\ CellsIdle /\ TextIdle /\ BuffersIdle
    /\ FewTabs /\ EngineIdle

\* a configuration loaded from the config file: any positive sizes
InitLoaded ==
    /\ \E size \in WindowSizes, cell \in CellSizes : InitApp(size, cell)
    /\ InitSide
    /\ KeysIdle
    /\ ColourIdle
    /\ CellsIdle
    /\ TextIdle /\ BuffersIdle
    /\ FewTabs /\ EngineIdle

DropStep == DropKill \/ DropWait \/ DropMaster \/ DropJoin

ReaderStep(id) ==
    \/ \E n \in 1..MaxOut : ReaderData(id, n)
    \/ ReaderEof(id)
    \/ ReaderInterrupted(id)
    \/ ReaderWouldBlock(id)
    \/ ReaderWake(id)
    \/ ReaderError(id)
    \/ ReaderFlush(id)

FwdStep == FwdStart \/ FwdForward \/ FwdFlush \/ FwdStop

\* ---- Spec: the output pipeline.  Tabs are opened and closed, children
\* write and exit, reader threads emit, the forwarder forwards, the UI
\* thread handles what arrives, and the application exits.
Next ==
    \/ \E index \in 0..MaxTabs : CloseTab(index)
    \/ \E outcome \in SpawnOutcomes : CreateTab(outcome)
    \/ PtySenderReady
    \/ \E reply \in BOOLEAN : PtyOutputData(reply)
    \/ PtyOutputClosed
    \/ Exit
    \/ DropStep
    \/ \E id \in Ids : ReaderStep(id)
    \/ \E id \in Ids : ChildWrite(id) \/ ChildExit(id)
    \/ FwdStep

Spec == Init /\ [][Next]_vars

\* ---- SpecResize: tabs and their sizes.  Tabs are opened (the spawn may
\* fail) and closed, the window is resized, settings are applied and keys
\* are pressed; the children stay quiet until they exit.
NextResize ==
    \/ \E index \in 0..MaxTabs : CloseTab(index)
    \/ \E outcome \in SpawnOutcomes : CreateTab(outcome)
    \/ \E size \in WindowSizes : WindowResized(size)
    \/ \E size \in WindowSizes, cell \in CellSizes : ApplySettings(size, cell)
    \/ PtySenderReady
    \/ PtyOutputClosed
    \/ \E key \in Keys : KeyPressed(key)
    \/ DropStep
    \/ \E id \in Ids : ReaderEof(id) \/ ReaderError(id) \/ ReaderFlush(id)
    \/ \E id \in Ids : ChildExit(id)
    \/ FwdStart \/ FwdForward \/ FwdFlush

SpecResize == InitLoaded /\ [][NextResize]_vars

\* ---- SpecWriter: two call sites use the one writer of a Session
NextWriter ==
    \/ \E site \in Sites, n \in 1..MaxWrite : CallWrite(site, n)
    \/ \E site \in Sites : LockWriter(site)
    \/ \E site \in Sites, k \in 1..MaxWrite : WriteSome(site, k)
    \/ \E site \in Sites : WriteFails(site)
    \/ \E site \in Sites : FlushWriter(site)

SpecWriter == Init /\ [][NextWriter]_vars

\* ---- SpecAlive: a Session is polled while its child runs and exits
NextAlive ==
    \/ \E poll \in {"Ok(None)", "Ok(Some)", "Err"} : IsAliveCall(poll)
    \/ AliveChildExit
    \/ AliveDrop

SpecAlive == Init /\ [][NextAlive]_vars

\* ---- SpecKeys: a tab is given one key press
InitKeyPress ==
    /\ InitApp(DefaultWindow, DefaultCell) /\ InitSide
    /\ InitKeys /\ ColourIdle /\ CellsIdle /\ TextIdle /\ BuffersIdle
    /\ FewTabs /\ EngineIdle

NextKeys == handle_key

SpecKeys == InitKeyPress /\ [][NextKeys]_vars

\* ---- SpecColour: one colour of a cell is resolved, and an explicit
\* colour is dimmed repeatedly
InitResolve ==
    /\ InitApp(DefaultWindow, DefaultCell) /\ InitSide
    /\ KeysIdle /\ InitColour /\ CellsIdle /\ TextIdle /\ BuffersIdle
    /\ FewTabs /\ EngineIdle

NextColour == Resolve \/ Dim

SpecColour == InitResolve /\ [][NextColour]_vars

\* ---- SpecCells: an engine builds the cells of one snapshot
InitBuild ==
    /\ InitApp(DefaultWindow, DefaultCell) /\ InitSide
    /\ KeysIdle /\ ColourIdle /\ InitCells /\ TextIdle /\ BuffersIdle
    /\ FewTabs /\ EngineIdle

NextCells == build_cells_into

SpecCells == InitBuild /\ [][NextCells]_vars

\* ---- SpecAtlas: the text pipeline prepares frames of cells, at the
\* cell heights the settings give it
NextAtlas ==
    \/ \E cell_height \in CellHeights : BeginFrame(cell_height)
    \/ \E ch \in Chars : FrameCell(ch)
    \/ EndFrame

SpecAtlas == Init /\ [][NextAtlas]_vars

\* ---- SpecBuffers: the two pipelines prepare frames of varying size
NextBuffers == \E pipe \in Pipes, n \in Counts : PrepareInstances(pipe, n)

SpecBuffers == Init /\ [][NextBuffers]_vars

\* ---- SpecEngine: one engine is fed, resized, themed and rendered while
\* consumers hold and drop the snapshots it returned
InitEngine ==
    /\ InitApp(DefaultWindow, DefaultCell) /\ InitSide
    /\ KeysIdle /\ ColourIdle /\ CellsIdle /\ TextIdle /\ FewTabs /\ BuffersIdle
    /\ InitEngineAny

NextEngine ==
    \/ \E bytes \in EngineBytes : feed_bytes(bytes)
    \/ \E new_size \in EngineSizes : resize(new_size)
    \/ \E theme \in EngineThemes : set_theme(theme)
    \/ render_cells
    \/ \E i \in 1..MaxHeld : DropSnapshot(i)

SpecEngine == InitEngine /\ [][NextEngine]_vars

\* ---- SpecSelect: the selection.  Tabs are opened, selected and closed,
\* the settings tab and the shell picker are opened and closed, keys are
\* pressed; the children stay quiet until they exit.
InitSelect ==
    /\ InitApp(DefaultWindow, DefaultCell) /\ InitSide
    /\ KeysIdle /\ ColourIdle /\ CellsIdle /\ TextIdle /\ BuffersIdle
    /\ EngineIdle
    /\ tabLimit = MaxSelectTabs

SelectIndexes == (0..MaxSelectTabs) \cup {SETTINGS_TAB_INDEX}

NextSelect ==
    \/ \E index \in SelectIndexes : TabSelected(index)
    \/ \E index \in SelectIndexes : CloseTab(index)
    \/ OpenShellPicker
    \/ CloseShellPicker
    \/ \E outcome \in {"ok", "spawn failed"} : CreateTab(outcome)
    \/ OpenSettingsTab
    \/ SelectSettingsCategory
    \/ PtySenderReady
    \/ PtyOutputClosed
    \/ \E key \in Keys : KeyPressed(key)
    \/ DropStep
    \/ \E id \in Ids : ReaderEof(id) \/ ReaderFlush(id)
    \/ \E id \in Ids : ChildExit(id)
    \/ FwdStart \/ FwdForward \/ FwdFlush

SpecSelect == InitSelect /\ [][NextSelect]_vars

\* ------------------------------------------------------------- properties
\* the bytes session id has read from its PTY, in the order read
Stream(id) == [k \in 1..nRead[id] |-> Byte(id, k)]

\* the events between the reader threads and App::update, oldest first
InFlight == outQ \o chanQ

RECURSIVE BytesOf(_, _)
\* the bytes of the Data events of session id in a queue, in queue order
BytesOf(q, id) ==
    IF q = <<>> THEN <<>>
    ELSE (IF Head(q).type = "Data" /\ Head(q).tab_id = id
          THEN Head(q).bytes ELSE <<>>) \o BytesOf(Tail(q), id)

\* the number of Closed events of session id in a queue
ClosedIn(q, id) ==
    Cardinality({i \in 1..Len(q) : q[i].type = "Closed" /\ q[i].tab_id = id})

\* a Data event of session id stands behind a Closed event of that id
DataBehindClosed(q, id) ==
    \E i, j \in 1..Len(q) :
        /\ i < j
        /\ q[i].type = "Closed" /\ q[i].tab_id = id
        /\ q[j].type = "Data" /\ q[j].tab_id = id

\* C1: for every session id, once Closed{id} has been emitted the reader
\* emits no further Data{id} and no second Closed{id}, and none is queued
\* behind it or delivered to App::update after it, whatever the other
\* sessions do.
C1_ClosedIsLast ==
    \A id \in Ids :
        /\ emitted[id].closed <= 1
        /\ ~emitted[id].late
        /\ delivered[id].closed <= 1
        /\ ~delivered[id].late
        /\ ~DataBehindClosed(InFlight, id)
        /\ ClosedIn(InFlight, id) + delivered[id].closed <= 1
        /\ delivered[id].closed = 1 => BytesOf(InFlight, id) = <<>>

\* session 1's Closed has been delivered after some of its Data, while
\* session 2 has Data delivered and is still open
C1_Witness ==
    /\ delivered[1].closed = 1
    /\ delivered[1].bytes # <<>>
    /\ delivered[2].bytes # <<>>
    /\ emitted[2].closed = 0

\* C2: the Data events of one session reach App::update in the order read:
\* what has been delivered is always a prefix of the bytes read, and while
\* the channel and the stream are open the delivered bytes followed by the
\* bytes still in flight are exactly the bytes read; every Data of a
\* session precedes its Closed.
C2_OrderPreserved ==
    \A id \in Ids :
        /\ Len(delivered[id].bytes) <= nRead[id]
        /\ delivered[id].bytes = SubSeq(Stream(id), 1, Len(delivered[id].bytes))
        /\ (rxOpen /\ outOpen) =>
               delivered[id].bytes \o BytesOf(InFlight, id) = Stream(id)
        /\ ~delivered[id].late
        /\ ~DataBehindClosed(InFlight, id)

\* both sessions have had two chunks and their Closed delivered
C2_Witness ==
    \A id \in 1..MaxTabs :
        /\ Len(delivered[id].bytes) = MaxOut
        /\ delivered[id].closed = 1
        /\ nRead[id] = MaxOut

\* C3: when a read returns 0 bytes the reader thread has sent exactly one
\* Closed for its id and has left the loop: it is completing that send or
\* has ended, and reads and sends nothing more.
C3_EofClosesOnce ==
    \A id \in Ids :
        hist[id].eof =>
            /\ emitted[id].closed = 1
            /\ rpc[id] \in {"flushClosed", "done"}
            /\ ~emitted[id].late

\* a reader thread that sent Data, then read 0 bytes, has ended
C3_Witness ==
    \E id \in Ids :
        /\ hist[id].eof
        /\ rpc[id] = "done"
        /\ emitted[id].bytes # <<>>

\* the UI thread is in handle.join(), the reader it joins is parked in its
\* send, the forwarder is parked on the full stream, and only the UI thread
\* takes messages from the stream
JoinStuck ==
    /\ uiPc = "join"
    /\ IsParked(uiDrop.id)
    /\ rpc[uiDrop.id] # "done"
    /\ fwdPc = "flush"
    /\ outOpen
    /\ Len(outQ) > OutBuffer

\* once stuck in the join the program stays stuck: no step of any thread
\* changes that
JoinStuckForEver == [][JoinStuck => JoinStuck']_vars

\* C4: closing a tab never blocks for ever: whenever the UI thread is in
\* the join of Session::drop, the reader thread it joins has ended or can
\* still get there, also when that reader is inside a blocking send.
C4_DropReturns == ~JoinStuck

\* C5: when the receiving end of the output channel is closed, a Data event
\* that could not be sent is dropped and the reader loop ends.
C5_LoopEndsWhenReceiverGone ==
    \A id \in Ids : hist[id].dropped => rpc[id] = "done"

\* what an event that matches no open tab leaves alone
RoutedState == <<tabs, active_tab, next_tab_id, sessVars, uiPc, uiDrop>>

\* App::update handles a Data or Closed event whose id is the id of no tab
UnmatchedEvent ==
    /\ uiPc = "idle" /\ uiPc' = "idle"
    /\ outQ # <<>>
    /\ outQ' = Tail(outQ)
    /\ Head(outQ).type \in {"Data", "Closed"}
    /\ PositionOf(Head(outQ).tab_id) = -1

\* a tab's engine has been fed exactly the Data delivered for the tab's id
FedOwnEvents ==
    \A i \in 1..NTabs :
        /\ tabs[i].fed = delivered[tabs[i].id].bytes
        /\ \A k \in 1..Len(tabs[i].fed) : tabs[i].fed[k][1] = tabs[i].id

\* open tabs have distinct ids, all handed out before the next one
IdsNotReused ==
    /\ \A i, j \in 1..NTabs : tabs[i].id = tabs[j].id => i = j
    /\ \A i \in 1..NTabs : tabs[i].id < next_tab_id
    /\ \A id \in Ids : id >= next_tab_id => delivered[id] = NoLog

\* C10: every output event is routed by its id: a tab's engine is fed the
\* Data of its own id and nothing else, an event whose id matches no open
\* tab changes nothing, and ids are not reused, so an event queued for a
\* closed tab never reaches a tab created later.
C10_RoutedById ==
    /\ [](FedOwnEvents /\ IdsNotReused)
    /\ [][UnmatchedEvent => UNCHANGED RoutedState]_vars

\* an event of closed tab 1 was handled while tab 2, created later, was
\* open, and tab 2 has been fed its own output
C10_Witness ==
    /\ hist[1].unrouted
    /\ NTabs = 1
    /\ tabs[1].id = 2
    /\ tabs[1].fed # <<>>

\* the PTY of every Active tab has the size of the tab's engine
PtyFollowsEngine ==
    \A i \in 1..NTabs :
        tabs[i].session = "Active" =>
            ptySize[tabs[i].id] = <<tabs[i].size[2], tabs[i].size[1]>>

\* C7: after any sequence of resizes the (rows, cols) last applied to an
\* Active session's PTY equal the engine's grid (lines, columns).
C7_PtyMatchesEngine == PtyFollowsEngine

\* the same for grids whose lines and columns fit 16 bits
PtyFollowsEngineInRange ==
    \A i \in 1..NTabs :
        (tabs[i].session = "Active" /\ tabs[i].size[1] < U16 /\ tabs[i].size[2] < U16)
            => ptySize[tabs[i].id] = <<tabs[i].size[2], tabs[i].size[1]>>

\* the causes Session::spawn reports
SpawnErrors == SpawnOutcomes \ {"ok"}

\* a Failed tab carries the cause and has no Session, no reader thread and
\* no PTY: nothing was ever sized, written or emitted under its id
FailedHasNoSession ==
    \A i \in 1..NTabs :
        /\ tabs[i].session = "Failed" =>
               /\ tabs[i].err \in SpawnErrors
               /\ sess[tabs[i].id] = NoSession
               /\ rpc[tabs[i].id] = "none"
               /\ ptySize[tabs[i].id] = <<0, 0>>
               /\ ptyIn[tabs[i].id] = 0
               /\ emitted[tabs[i].id] = NoLog
               /\ tabs[i].fed = <<>>
        /\ tabs[i].session = "Active" =>
               /\ tabs[i].err = "none"
               /\ sess[tabs[i].id].exists

\* a step that adds a Failed tab
SpawnFailed == NTabs' = NTabs + 1 /\ tabs'[NTabs'].session = "Failed"

\* C8: when a step of Session::spawn fails, the error carries the cause, no
\* Session exists, the requesting tab is Failed (keys, resizes and output
\* touch no session for it) and no other tab is changed.
C8_SpawnFailure ==
    /\ []FailedHasNoSession
    /\ [][SpawnFailed =>
             /\ SubSeq(tabs', 1, NTabs) = tabs
             /\ tabs'[NTabs'].err \in SpawnErrors
             /\ UNCHANGED <<sessVars, rpc, emitted, delivered>>]_vars

\* a Failed tab is the active one beside an Active tab that took a key, and
\* the window was resized after both were opened
C8_Witness ==
    \E i, j \in 1..NTabs :
        /\ tabs[i].session = "Failed"
        /\ tabs[i].err = "writer unavailable"
        /\ active_tab = i - 1
        /\ tabs[j].session = "Active"
        /\ ptyIn[tabs[j].id] = 1
        /\ window_size # <<config.window_width, config.window_height>>
        /\ tabs[i].size = grid_for_size(window_size, config)

\* at most one call site is between lock and unlock, and it is the holder
MutualExclusion ==
    \A a, b \in Sites :
        /\ Holding(a) => wHolder = a
        /\ (Holding(a) /\ Holding(b)) => a = b

\* the bytes of one call stand together in the PTY input, in their order
Contiguous ==
    \A i, j \in 1..Len(wOut) :
        (i < j /\ wOut[i][1] = wOut[j][1] /\ wOut[i][2] = wOut[j][2])
            => wOut[j][3] = wOut[i][3] - (j - i)

\* C6: writes to the PTY are mutually exclusive: at most one of the two
\* call sites holds the writer, and the bytes of one write-and-flush are
\* contiguous in the PTY input, never interleaved with another write's.
C6_WritesExclusive == MutualExclusion /\ Contiguous

\* send_event has written the first of two bytes and holds the writer
\* while send_bytes waits for the lock
C6_Witness ==
    /\ wHolder = "send_event"
    /\ wpc["send_event"] = "write"
    /\ wLeft["send_event"] = 1
    /\ wpc["send_bytes"] = "lock"
    /\ wOut # <<>>

\* C9: is_alive returns true exactly when the poll succeeds and reports
\* the child running; it returns false when the child has exited, when the
\* poll errors and when the child handle is gone; once the child has
\* exited, every later call returns false.
C9_IsAlive ==
    /\ \A k \in 1..Len(aLog) :
          /\ aLog[k][3] = (aLog[k][2] = "Ok(None)")
          /\ aLog[k][3] => aLog[k][1] = "running"
          /\ aLog[k][1] = "exited" =>
                 \A m \in k..Len(aLog) : ~aLog[m][3]
    /\ \A poll \in {"Ok(None)", "Ok(Some)", "Err"} : ~is_alive(FALSE, poll)

\* true while running, false on a failed poll, false after the exit
C9_Witness ==
    /\ Len(aLog) >= 4
    /\ aLog[1] = <<"running", "Ok(None)", TRUE>>
    /\ aLog[2] = <<"running", "Err", FALSE>>
    /\ aLog[3] = <<"exited", "Ok(Some)", FALSE>>
    /\ aLog[4] = <<"exited", "Err", FALSE>>

\* App::update handles a Closed event whose id is the id of an open tab
ClosedMatched ==
    /\ uiPc = "idle" /\ uiPc' # "exited"
    /\ outQ # <<>>
    /\ outQ' = Tail(outQ)
    /\ Head(outQ).type = "Closed"
    /\ PositionOf(Head(outQ).tab_id) # -1

\* seq without its element at position pos (counted from 1)
Without(seq, pos) ==
    [i \in 1..(Len(seq) - 1) |-> seq[IF i < pos THEN i ELSE i + 1]]

\* the teardown started by a Closed event finds its reader thread past the
\* send of that event, so the join can return
ClosedTeardownFree ==
    uiDrop.cont = "Closed" =>
        /\ rpc[uiDrop.id] \in {"flushClosed", "done"}
        /\ ~IsParked(uiDrop.id)

\* a tab that is gone and is not being torn down has no Session left
RemovedHasNoSession ==
    \A id \in Ids : (id \notin TabIds /\ uiDrop.id # id) => sess[id] = NoSession

\* C11: on Closed{tab_id} exactly the tab with that id is removed and its
\* session torn down; the other tabs keep their order and their state, and
\* no tab enters an error state.
C11_ClosedRemovesTab ==
    /\ [](ClosedTeardownFree /\ RemovedHasNoSession)
    /\ [][ClosedMatched =>
             LET id == Head(outQ).tab_id
                 pos == PositionOf(id) + 1
             IN /\ tabs[pos].id = id
                /\ tabs' = Without(tabs, pos)
                /\ uiPc' = "kill"
                /\ uiDrop' = [id |-> id, cont |-> "Closed"]
                /\ UNCHANGED <<sessVars, next_tab_id>>]_vars

\* tab 1 was removed by its Closed event and torn down; tab 2, opened
\* before that, is still there with the output it was fed
C11_Witness ==
    /\ delivered[1].closed = 1
    /\ ~hist[1].unrouted
    /\ sess[1] = NoSession
    /\ uiPc = "idle"
    /\ NTabs = 1
    /\ tabs[1].id = 2
    /\ tabs[1].session = "Active"
    /\ Len(tabs[1].fed) = MaxOut
    /\ delivered[2].closed = 0

\* ------------------------------------------------------ the key encoder
\* the handled key press reached key_to_bytes
Encoded == kPc = "done" /\ kTab.session = "Active"

\* the table of section 4.2: CSI is ESC [, SS3 is ESC O; F5..F12 carry
\* the VT220 numbers 15, 17, 18, 19, 20, 21, 23, 24
Csi(tail) == <<27, 91>> \o tail
Ss3(letter) == <<27, 79, letter>>
Digits(n) ==
    IF n < 10 THEN <<48 + n>> ELSE <<48 + (n \div 10), 48 + (n % 10)>>
CsiTilde(n) == Csi(Digits(n) \o <<126>>)
FixedSequence ==
    [name \in TableKeys \ {"Tab", "Space"} |->
        CASE name = "Enter" -> <<13>>
          [] name = "Backspace" -> <<127>>
          [] name = "Escape" -> <<27>>
          [] name = "ArrowUp" -> Csi(<<65>>)
          [] name = "ArrowDown" -> Csi(<<66>>)
          [] name = "ArrowRight" -> Csi(<<67>>)
          [] name = "ArrowLeft" -> Csi(<<68>>)
          [] name = "Home" -> Csi(<<72>>)
          [] name = "End" -> Csi(<<70>>)
          [] name = "Delete" -> CsiTilde(3)
          [] name = "PageUp" -> CsiTilde(5)
          [] name = "PageDown" -> CsiTilde(6)
          [] name = "Insert" -> CsiTilde(2)
          [] name = "F1" -> Ss3(80)
          [] name = "F2" -> Ss3(81)
          [] name = "F3" -> Ss3(82)
          [] name = "F4" -> Ss3(83)
          [] name = "F5" -> CsiTilde(15)
          [] name = "F6" -> CsiTilde(17)
          [] name = "F7" -> CsiTilde(18)
          [] name = "F8" -> CsiTilde(19)
          [] name = "F9" -> CsiTilde(20)
          [] name = "F10" -> CsiTilde(21)
          [] name = "F11" -> CsiTilde(23)
          [] name = "F12" -> CsiTilde(24)]

\* C12: for every named key of the table, every modifier set and every
\* composed text the encoder returns the documented bytes: Tab gives
\* ESC [ Z iff Shift is held and HT otherwise, Space gives NUL iff Control
\* is held and a space otherwise, and every other listed key gives its
\* fixed sequence whatever the modifiers and the text.
C12_NamedKeyTable ==
    (Encoded /\ kKey.kind = "Named" /\ kKey.name \in TableKeys) =>
        /\ kKey.name = "Tab" =>
              kRet = Some(IF "SHIFT" \in kMods THEN Csi(<<90>>) ELSE <<9>>)
        /\ kKey.name = "Space" =>
              kRet = Some(IF "CTRL" \in kMods THEN <<0>> ELSE <<32>>)
        /\ kKey.name \notin {"Tab", "Space"} =>
              kRet = Some(FixedSequence[kKey.name])

\* Shift+Control+Tab with a composed text has been encoded as ESC [ Z
C12_Witness ==
    /\ Encoded /\ kKey = NamedKey("Tab")
    /\ kMods = {"SHIFT", "CTRL"} /\ kText = Some(<<97>>)
    /\ kRet = Some(<<27, 91, 90>>)

\* the first byte of the key's string is an ASCII letter, and its place
\* in the alphabet (1..26); 0 when it is not a letter
LetterNumber(c) ==
    IF c = <<>> THEN 0
    ELSE IF c[1] \in 65..90 THEN c[1] - 64
    ELSE IF c[1] \in 97..122 THEN c[1] - 96
    ELSE 0

\* C13: for a character key with Control held the encoder returns the one
\* byte uppercase - 'A' + 1, a value in 0x01..0x1A, when the uppercased
\* first character is an ASCII letter, and no bytes otherwise; the
\* composed text has no part in the result.
C13_ControlCharacter ==
    (Encoded /\ kKey.kind = "Character" /\ "CTRL" \in kMods) =>
        LET n == LetterNumber(kKey.c)
        IN IF n = 0 THEN kRet = None
           ELSE n \in 1..26 /\ kRet = Some(<<n>>)

\* Control+z with a composed text "a" has been encoded as 0x1A
C13_Witness ==
    /\ Encoded /\ kKey = CharacterKey(<<122>>)
    /\ kMods = {"CTRL"} /\ kText = Some(<<97>>)
    /\ kRet = Some(<<26>>)

\* C14: for a character key without Control the bytes given to the
\* session are exactly the bytes of the composed text, in order, in one
\* write; with no composed text nothing is written.
C14_TextVerbatim ==
    (Encoded /\ kKey.kind = "Character" /\ "CTRL" \notin kMods) =>
        IF kText = None THEN kSent = <<>> ELSE kSent = <<kText[2]>>

\* the key a with Shift and Alt, composed to e-acute, has been written as
\* the two bytes of e-acute
C14_Witness ==
    /\ Encoded /\ kKey = CharacterKey(<<97>>)
    /\ kMods = {"SHIFT", "ALT"} /\ kText = Some(<<195, 169>>)
    /\ kSent = <<(<<195, 169>>)>>

\* the key has no mapping: a named key outside the table, or a key that
\* is neither named nor a character
Unmapped ==
    \/ kKey.kind = "Named" /\ kKey.name \notin TableKeys
    \/ kKey.kind \notin {"Named", "Character"}

\* C15: the encoder never fails, whatever the key, the modifiers and the
\* text; for a key with no mapping it returns nothing, handle_key gives no
\* byte to the session, and handle_key never changes the tab.
C15_TotalAndPure ==
    /\ [](kRet # Panicked)
    /\ []((kPc = "done" /\ Unmapped) =>
            kRet \in {None, NotCalled} /\ kSent = <<>> /\ ~kLogged)
    /\ [][kTab' = kTab]_vars

\* Control+F13 with a composed text "a" has been handled by a live tab
C15_Witness ==
    /\ Encoded /\ kKey = NamedKey("F13")
    /\ kMods = {"CTRL"} /\ kText = Some(<<97>>)
    /\ kRet = None /\ kSent = <<>>

\* -------------------------------------------------- the colour resolver
\* the six levels of the colour cube
Level == <<0, 95, 135, 175, 215, 255>>

\* the palette of section 4.3
Palette(i) ==
    IF i <= 15 THEN DEFAULT_ANSI[i + 1]
    ELSE IF i <= 231
         THEN <<Level[((i - 16) \div 36) + 1],
                Level[(((i - 16) \div 6) % 6) + 1],
                Level[((i - 16) % 6) + 1]>>
    ELSE <<8 + (i - 232) * 10, 8 + (i - 232) * 10, 8 + (i - 232) * 10>>

\* the resolution went to the theme and applied no intensity
PlainIndexed ==
    /\ rPc = "done" /\ rColor.kind = "Indexed"
    /\ rColors.at # rColor.index
    /\ ~rApply \/ rFlags = {}

\* C16: for every palette index 0..255 the theme gives its ANSI slot for
\* 0-15, the cube colour of levels 0,95,135,175,215,255 for 16-231 and
\* the grey 8 + (i-232)*10 for 232-255, every channel within 0..255 with
\* no 8-bit overflow on the way.
C16_IndexedPalette ==
    PlainIndexed =>
        /\ rOut = Palette(rColor.index)
        /\ \A ch \in 1..3 : rOut[ch] \in 0..255

\* the last grey of the ramp has been resolved for a background
C16_Witness ==
    /\ PlainIndexed /\ rColor = Indexed(255) /\ ~rApply
    /\ rFlags = {"BOLD", "DIM"}
    /\ rOut = <<238, 238, 238>>

\* the whole number nearest to two thirds of x
TwoThirds(x) == CHOOSE y \in 0..255 : 3 * y - 2 * x \in -1..1

\* the colour of a palette slot: the terminal's own entry if it has one,
\* the theme's otherwise
Slot(i) == IF rColors.at = i THEN rColors.rgb ELSE Palette(i)

\* C17: resolving the indexed foreground colour of a cell: with the bold
\* flag and an index below 8 the colour is that of slot index+8, indices
\* from 8 up are not changed by bold, and the 2/3 dim scaling is applied
\* to the colour looked up exactly when the dim flag is set.
C17_BoldPromotesDimScales ==
    (rPc = "done" /\ rColor.kind = "Indexed" /\ rApply) =>
        LET i == rColor.index
            base == Slot(IF "BOLD" \in rFlags /\ i < 8 THEN i + 8 ELSE i)
        IN rOut = IF "DIM" \in rFlags
                  THEN <<TwoThirds(base[1]), TwoThirds(base[2]),
                         TwoThirds(base[3])>>
                  ELSE base

\* the colour before the k-th application of dim_rgb
Before(k) == IF k = 1 THEN rColor.rgb ELSE dChain[k - 1]

\* every application scaled every channel to the nearest whole number to
\* two thirds of it, within 0..255
ScaledByTwoThirds ==
    \A k \in 1..Len(dChain) : \A ch \in 1..3 :
        /\ dChain[k][ch] \in 0..255
        /\ 3 * dChain[k][ch] - 2 * Before(k)[ch] \in -1..1

\* C18: dim scaling takes each 8-bit channel to two thirds of it, rounded
\* to the nearest integer and within 0..255, and it is not idempotent:
\* dim(dim(c)) differs from dim(c) for every colour c that has a channel
\* of 3 or more, and equals it for the colours whose channels are all
\* below 3.
C18_DimScales ==
    /\ ScaledByTwoThirds
    /\ Len(dChain) >= 2 =>
          (dChain[2] # dChain[1] <=> \E ch \in 1..3 : rColor.rgb[ch] >= 3)

\* white has been dimmed twice: 255 -> 170 -> 113
C18_Witness ==
    /\ rColor = SpecColor(<<255, 255, 255>>)
    /\ dChain = <<(<<170, 170, 170>>), (<<113, 113, 113>>)>>

\* C18 as stated: dim(dim(c)) differs from dim(c) for a colour c, whatever
\* colour it is
C18_NeverIdempotent ==
    Len(dChain) >= 2 => dChain[2] # dChain[1]

\* ------------------------------------------------------ the cell builder
\* the cells have been built
Built == gPc = "done"

\* slot i is the one the cursor overlay rewrote
CursorAt(i) ==
    /\ gCursor.shape # "Hidden"
    /\ gCursor.line \in 0..(gSize.lines - 1)
    /\ gCursor.column < gSize.columns
    /\ gCursor.line * gSize.columns + gCursor.column + 1 = i

\* C19: in every CellVisual built from a snapshot the background alpha is
\* the theme's background opacity and the foreground alpha is 1.0, for
\* every combination of the inverse and hidden flags (stated for the
\* cells the cursor overlay has not rewritten).
C19_Alphas ==
    Built =>
        \A i \in DOMAIN gOut :
            ~CursorAt(i) =>
                /\ gOut[i].bg[4] = gTheme.background_opacity
                /\ gOut[i].fg[4] = 100

\* the three colour channels of an [f32; 4]
Channels(rgba) == <<rgba[1], rgba[2], rgba[3]>>
\* the linear channels of an Rgb
Linear(rgb) == Channels(rgb_to_rgba(rgb, 0))

\* the content cell of column 0 and the slot built for it
Content == gGrid[1].cell
Shown == gOut[1]
ResolvedFg == resolve_rgb(Content.fg, gColors, gTheme, Content.flags, TRUE)
ResolvedBg == resolve_rgb(Content.bg, gColors, gTheme, Content.flags, FALSE)

\* C20: inverse is applied before hidden: with inverse the cell's
\* background is the resolved foreground colour and its foreground the
\* resolved background colour; with hidden the foreground is then the
\* cell's final, post-swap background; the character, the position and
\* the underline flag are recorded all the same.
C20_InverseThenHidden ==
    (Built /\ ~CursorAt(1)) =>
        LET inverse == "INVERSE" \in Content.flags
            hidden == "HIDDEN" \in Content.flags
        IN /\ Channels(Shown.bg) =
                  Linear(IF inverse THEN ResolvedFg ELSE ResolvedBg)
           /\ ~hidden =>
                  Channels(Shown.fg) =
                      Linear(IF inverse THEN ResolvedBg ELSE ResolvedFg)
           /\ hidden => Shown.fg = Shown.bg
           /\ Shown.ch = Content.c /\ Shown.col = 0 /\ Shown.row = 0
           /\ Shown.underline = ("UNDERLINE" \in Content.flags)

\* an underlined, inverse and hidden x in red on blue has been built with
\* the cursor on the other cell: both of its colours are the red
C20_Witness ==
    /\ Built /\ ~CursorAt(1) /\ CursorAt(2)
    /\ Content = GridCell("x", Indexed(1), Indexed(4),
                          {"INVERSE", "HIDDEN", "UNDERLINE"})
    /\ gTheme.background_opacity = 50
    /\ Shown.bg = rgb_to_rgba(<<205, 0, 0>>, 50)
    /\ Shown.fg = Shown.bg
    /\ Shown.ch = "x" /\ Shown.underline

\* the cells as the content pass left them, before the cursor overlay
Original == content_cells(default_cells(gTheme, gSize), gGrid, gColors,
                          gTheme, gSize)

\* the luminance 0.2126 R + 0.7152 G + 0.0722 B of a colour is above 0.5
\* (channels in ten-thousandths)
Bright(rgba) == 2126 * rgba[1] + 7152 * rgba[2] + 722 * rgba[3] > 50000000

\* what the overlay makes of the cursor's cell
Overlaid(slot, original) ==
    /\ slot.ch = original.ch /\ slot.col = original.col
    /\ slot.row = original.row /\ slot.underline = original.underline
    /\ IF original.bg[4] # 0
       THEN slot.fg = original.bg /\ slot.bg = original.fg
       ELSE /\ slot.bg = <<original.fg[1], original.fg[2], original.fg[3],
                           100>>
            /\ slot.fg = IF Bright(original.fg) THEN <<0, 0, 0, 100>>
                         ELSE <<10000, 10000, 10000, 100>>

\* C21: with a cursor that is not hidden and lies inside the grid, the
\* cursor's cell has its two colours swapped when its background alpha is
\* not zero; otherwise its background is its former foreground with alpha
\* 1 and its foreground is black when the luminance of the former
\* foreground is above 0.5 and white when it is not.  Every other cell,
\* and every cell when the cursor is hidden or outside the grid, is as
\* the content pass left it.
C21_CursorOverlay ==
    Built =>
        /\ DOMAIN gOut = DOMAIN Original
        /\ \A i \in DOMAIN gOut :
              IF CursorAt(i) THEN Overlaid(gOut[i], Original[i])
              ELSE gOut[i] = Original[i]

\* the cursor stands on a plain x over a fully transparent background: the
\* cursor is the opaque foreground colour and the x is black
C21_Witness ==
    /\ Built /\ CursorAt(1) /\ gSize.columns = 2
    /\ gTheme.background_opacity = 0
    /\ Content = GridCell("x", Named("Foreground"), Named("Background"), {})
    /\ gOut[1].fg = <<0, 0, 0, 100>>
    /\ gOut[1].bg = rgb_to_rgba(DEFAULT_FOREGROUND, 100)
    /\ gOut[2] = Original[2]

\* ------------------------------------------------------------ teardown
\* the steps of Session::drop, in the order of the code
DropOrder == <<"kill", "wait", "master", "join">>
\* the place of a step in that order; 0 outside a drop
DropPlace(pc) ==
    IF \E k \in 1..4 : DropOrder[k] = pc
    THEN CHOOSE k \in 1..4 : DropOrder[k] = pc
    ELSE 0

\* what each step finds done: the child taken once it has been killed,
\* the process reaped once it has been waited for, the master released
\* before the join
DropProgress ==
    LET s == sess[uiDrop.id]
        p == proc[uiDrop.id]
    IN /\ uiPc = "kill" => s.child /\ s.master /\ s.reader
                              /\ p \in {"running", "exited"}
       /\ uiPc = "wait" => ~s.child /\ s.master /\ s.reader /\ p = "exited"
       /\ uiPc = "master" => ~s.child /\ s.master /\ s.reader /\ p = "reaped"
       /\ uiPc = "join" => ~s.child /\ ~s.master /\ p = "reaped"

\* C25: Session teardown kills the child, waits for its exit, releases
\* the PTY master and joins the reader thread, in this order; the join
\* never starts before the child has been killed and reaped, and when the
\* drop has returned the session holds no child, no master and no reader.
C25_TeardownOrder ==
    /\ [](DropPlace(uiPc) # 0 => DropProgress)
    /\ [][(DropPlace(uiPc) # 0 /\ uiPc' # uiPc) =>
             /\ DropPlace(uiPc') = (DropPlace(uiPc) + 1) % 5
             /\ uiPc = "join" => uiPc' = "idle"]_vars
    /\ [][(DropPlace(uiPc) = 0 /\ DropPlace(uiPc') # 0) =>
             uiPc' = "kill"]_vars
    /\ [][(uiPc = "join" /\ uiPc' # "join") =>
             sess'[uiDrop.id] = NoSession]_vars

\* the first tab was closed by the user before any Closed event of its
\* session was handled; the drop of session 1 has returned and the second
\* tab is still there
C25_Witness ==
    /\ uiPc = "idle" /\ uiDrop = NoDrop
    /\ proc[1] = "reaped" /\ rpc[1] = "done" /\ sess[1] = NoSession
    /\ delivered[1].closed = 0
    /\ NTabs = 1 /\ tabs[1].id = 2

\* ------------------------------------------------- reader loop, errors
\* the reader of id is past its loop, or in the send that precedes the
\* break
Ended(pc) == pc \in {"flushClosed", "done"}

\* C26: in the reader loop a read error of kind Interrupted or WouldBlock
\* emits no event and does not end the loop: the read is retried, after a
\* sleep for WouldBlock.  A read error of any other kind emits exactly
\* one Closed of the session and ends the loop.
C26_ReaderErrorArms ==
    /\ [][\A id \in Ids :
            \* WouldBlock: to the sleep, nothing emitted
            /\ (rpc[id] = "read" /\ rpc'[id] = "sleep") =>
                  emitted' = emitted /\ chanQ' = chanQ
                      /\ chanParked' = chanParked
            \* after the sleep: back to the read, nothing emitted
            /\ (rpc[id] = "sleep" /\ rpc'[id] # "sleep") =>
                  rpc'[id] = "read" /\ emitted' = emitted
            \* a read that neither got data nor end of stream nor
            \* another error goes on reading
            /\ (rpc[id] = "read" /\ emitted'[id] = emitted[id]
                    /\ hist'[id] = hist[id]) =>
                  rpc'[id] \in {"read", "sleep"}
            \* any other error: one Closed, and the loop is left
            /\ (hist'[id].ioerr /\ ~hist[id].ioerr) =>
                  /\ rpc[id] = "read" /\ Ended(rpc'[id])
                  /\ emitted[id].closed = 0 /\ emitted'[id].closed = 1
                  /\ emitted'[id].bytes = emitted[id].bytes
         ]_vars
    /\ [](\A id \in Ids : hist[id].ioerr =>
              Ended(rpc[id]) /\ emitted[id].closed = 1)

\* the reader of session 1 has left its loop on a read error, with its
\* one Closed sent, while the reader of session 2 sleeps after WouldBlock
C26_Witness ==
    /\ hist[1].ioerr /\ ~hist[1].eof /\ rpc[1] = "done"
    /\ emitted[1].closed = 1
    /\ rpc[2] = "sleep" /\ emitted[2].closed = 0

\* ------------------------------------------------ the atlas packer (C27)
\* the allocate calls of the last step
Calls == {textPipe.log.calls[k] : k \in 1..Len(textPipe.log.calls)}

\* the height of the tallest box of the row at y, 0 for an empty row
Tallest(placed, y) ==
    LET row == {b \in placed : b.y = y}
    IN  IF row = {} THEN 0
        ELSE CHOOSE t \in {b.h : b \in row} : \A b \in row : b.h <= t

\* the box fits the current row
FitsRow(call) == call.packer.cursor_x + call.width <= call.packer.size

\* where the box of a call belongs: at the cursor, or at the left edge
\* directly below the current row
Place(call) ==
    IF FitsRow(call)
    THEN <<call.packer.cursor_x, call.packer.cursor_y>>
    ELSE <<0, call.packer.cursor_y
              + Tallest(call.boxes, call.packer.cursor_y)>>

\* C27: allocate(w, h) places the box at the cursor when cursor_x + w fits
\* the atlas width, otherwise at x = 0 directly below the current row
\* (cursor_y plus the height of the row's tallest box); when the box does
\* not fit vertically there, or w or h exceeds the atlas size, it returns
\* 'no space'.
C27_Allocate ==
    \A call \in Calls :
        IF \/ call.width > call.packer.size
           \/ call.height > call.packer.size
           \/ Place(call)[2] + call.height > call.packer.size
        THEN call.ret = None
        ELSE call.ret = Some(Place(call))

\* a box went to a new row, below a row of two boxes of different height
C27_Witness ==
    \E call \in Calls :
        /\ ~FitsRow(call) /\ call.ret = Some(Place(call))
        /\ Cardinality({b.h : b \in {c \in call.boxes :
                                       c.y = call.packer.cursor_y}}) = 2

\* -------------------------------------------- boxes and rectangles (C28)
\* the boxes the packer has handed out since it was last reset
Boxes == textPipe.log.boxes

\* a rectangle lies in the square of the current atlas
InAtlas(r) ==
    /\ 0 <= r.x /\ r.x + r.w <= textPipe.atlas.size
    /\ 0 <= r.y /\ r.y + r.h <= textPipe.atlas.size

\* the characters with a glyph of some size in the cache
Cached ==
    {ch \in Chars : /\ textPipe.glyphs[ch] # Vacant
                    /\ textPipe.glyphs[ch].size # <<0, 0>>}

\* the pixels a cached glyph points at, from its UVs and the atlas size
PixelsOf(ch) ==
    LET info == textPipe.glyphs[ch]
        side == textPipe.atlas.size
    IN  [x |-> (info.uv_min[1] * side) \div ATLAS_MAX_SIZE,
         y |-> (info.uv_min[2] * side) \div ATLAS_MAX_SIZE,
         w |-> ((info.uv_max[1] - info.uv_min[1]) * side) \div ATLAS_MAX_SIZE,
         h |-> ((info.uv_max[2] - info.uv_min[2]) * side) \div ATLAS_MAX_SIZE]

\* r with a margin of one pixel on every side
Padded(r) == [x |-> r.x - 1, y |-> r.y - 1, w |-> r.w + 2, h |-> r.h + 2]

\* two rectangles overlap or have adjacent pixels
Touch(r, s) == Overlap(Padded(r), s)

\* C28: between two resets of the packer the boxes handed out, whatever
\* calls were refused in between, are pairwise disjoint and inside the
\* atlas square; the pixels of every cached glyph are its size, lie inside
\* a box of their own with one pixel of margin on every side, and the
\* pixels of two cached glyphs neither overlap nor touch.
C28_BoxesDisjoint ==
    /\ \A b \in Boxes : InAtlas(b)
    /\ \A b, c \in Boxes : b # c => ~Overlap(b, c)
    /\ \A ch \in Cached :
        /\ PixelsOf(ch).w = textPipe.glyphs[ch].size[1]
        /\ PixelsOf(ch).h = textPipe.glyphs[ch].size[2]
        /\ Padded(PixelsOf(ch)) \in Boxes
    /\ \A ch, other \in Cached :
        ch # other => /\ Padded(PixelsOf(ch)) # Padded(PixelsOf(other))
                      /\ ~Touch(PixelsOf(ch), PixelsOf(other))

\* three glyphs are cached in two rows of the grown atlas, the lower row
\* begun by a call that was refused
C28_Witness ==
    /\ textPipe.atlas.size = ATLAS_MAX_SIZE
    /\ Cardinality(Cached) = 3 /\ Cardinality(Boxes) = 3
    /\ Cardinality({b.y : b \in Boxes}) = 2
    /\ \E b \in Boxes : b.x > 0 /\ b.y > 0
    /\ Cached = {"W", "i", "a"}

\* ------------------------------------------------- atlas growth (C22)
\* the packing attempts of the last step, and the atlases it built
Attempts == Len(textPipe.log.calls)
Grown == textPipe.log.built

\* the first attempt of the last step was refused in an atlas of side s
RefusedAt(s) ==
    /\ Attempts >= 1
    /\ textPipe.log.calls[1].ret = None
    /\ textPipe.log.calls[1].packer.size = s

\* what one allocate_in_atlas call may have done
GrowthRule ==
    /\ textPipe.atlas.size \in ATLAS_INITIAL_SIZE..ATLAS_MAX_SIZE
    /\ Attempts <= 2 /\ Grown <= 1
    /\ Grown = 1 <=> Attempts = 2
    /\ Attempts = 2 => textPipe.log.calls[1].ret = None
    /\ \A s \in ATLAS_INITIAL_SIZE..(ATLAS_MAX_SIZE - 1) :
        RefusedAt(s) =>
            /\ Grown = 1
            /\ textPipe.atlas.size = Min(2 * s, ATLAS_MAX_SIZE)
            /\ textPipe.log.calls[2].packer = AtlasPacker(textPipe.atlas.size)
            /\ frame.ret = IF textPipe.log.calls[2].ret = None THEN None
                           ELSE Some(textPipe.glyphs[frame.ch])
    /\ RefusedAt(ATLAS_MAX_SIZE) =>
            /\ Attempts = 1 /\ Grown = 0
            /\ frame.ret = None

\* C22: the atlas side is always between the initial and the maximum size
\* and never decreases; an allocation refused at a side S below the
\* maximum grows the atlas to min(2S, maximum); one allocate_in_atlas call
\* grows at most once and packs at most twice; at the maximum side a
\* refused allocation reports 'no space' without growing or retrying.
C22_AtlasGrowth ==
    /\ []GrowthRule
    /\ [][textPipe'.atlas.size >= textPipe.atlas.size]_vars
    /\ [][textPipe'.atlas.size # textPipe.atlas.size
            => Min(2 * textPipe.atlas.size, ATLAS_MAX_SIZE)
                   = textPipe'.atlas.size]_vars

\* a glyph too wide for either atlas: refused, the atlas grown once to the
\* maximum, and refused again
C22_Witness ==
    /\ Attempts = 2 /\ Grown = 1
    /\ RefusedAt(ATLAS_INITIAL_SIZE)
    /\ textPipe.log.calls[2].ret = None
    /\ textPipe.atlas.size = ATLAS_MAX_SIZE
    /\ frame.ret = None

\* ------------------------------------------- rebuilding the atlas (C29)
\* the pixels of a cached glyph are in the current texture
Rasterized(ch) ==
    \E r \in textPipe.atlas.texture :
        /\ r.ch = ch
        /\ [x |-> r.x, y |-> r.y, w |-> r.w, h |-> r.h] = PixelsOf(ch)

\* the state a step that grew the atlas leaves: a retry of the refused
\* call in an empty packer of the new side, and nothing in the cache or
\* the texture but the glyph retried
AfterGrowth ==
    /\ Attempts = 2
    /\ textPipe.log.calls[1].ret = None
    /\ textPipe.log.calls[2].packer = AtlasPacker(textPipe.atlas.size)
    /\ textPipe.log.calls[2].boxes = {}
    /\ textPipe.log.calls[2].width = textPipe.log.calls[1].width
    /\ textPipe.log.calls[2].height = textPipe.log.calls[1].height
    /\ \A ch \in Chars \ {frame.ch} : textPipe.glyphs[ch] = Vacant
    /\ \A r \in textPipe.atlas.texture : r.ch = frame.ch
    /\ IF textPipe.log.calls[2].ret = None
       THEN textPipe.glyphs[frame.ch] = Vacant /\ textPipe.atlas.texture = {}
       ELSE Cached = {frame.ch}

\* C29: when the atlas grows the texture is replaced as a whole, the glyph
\* cache is emptied and the packer is reset to the origin with the new
\* side before the refused allocation is retried, exactly once; the cache
\* never holds an entry whose UVs were computed for an earlier atlas.
C29_Rebuild ==
    /\ [](Grown = 1 => AfterGrowth)
    /\ [](\A ch \in Cached : Rasterized(ch))
    /\ [][Grown' = 1 => /\ textPipe'.atlas.id = textPipe.atlas.id + 1
                        /\ textPipe'.atlas.size > textPipe.atlas.size]_vars
    /\ [][textPipe'.atlas.id # textPipe.atlas.id => Grown' = 1]_vars

\* after a frame that drew two glyphs from the first atlas, the first cell
\* of the next frame grew it: the cache holds that cell's glyph only
C29_Witness ==
    /\ Grown = 1 /\ textPipe.atlas.id = 2
    /\ textPipe.log.calls[2].ret # None
    /\ Cached = {frame.ch}
    /\ frame.frames = 1 /\ frame.cells = 1
    /\ instance_buffer.len = 2

\* ------------------------------------------- a glyph without room (C24)
\* the cells of the frame, by position, whose lookup gave a glyph of some
\* size
Drawable ==
    {k \in 1..Len(frame.seen) :
        /\ frame.seen[k].ret \notin {None, NotCalled}
        /\ frame.seen[k].ret[2].size[1] # 0
        /\ frame.seen[k].ret[2].size[2] # 0}

\* the cells of the frame whose lookup found no room
Unplaced == {k \in 1..Len(frame.seen) : frame.seen[k].ret = None}

\* the instance of every drawable cell, in the order of the cells
InstancesOf(cells) ==
    LET RECURSIVE upto(_)
        upto(k) ==
            IF k = 0 THEN <<>>
            ELSE IF k \in cells
                 THEN Append(upto(k - 1),
                          GlyphInstance(k, frame.seen[k].ch,
                                        frame.seen[k].ret[2]))
                 ELSE upto(k - 1)
    IN  upto(Len(frame.seen))

\* C24: a glyph that finds no room does not end the frame: no instance is
\* emitted for its cell, nothing is cached for its character, and the
\* other cells of the frame, before and after it, are processed and their
\* instances reach the instance buffer.
C24_FailureSkips ==
    /\ frame.ret = None =>
        /\ textPipe.glyphs[frame.ch] = Vacant
        /\ textPipe.atlas.size = ATLAS_MAX_SIZE
    /\ \A k \in Unplaced :
        \A n \in 1..Len(glyph_instances) : glyph_instances[n].cell # k
    /\ glyph_instances = InstancesOf(Drawable)
    /\ (frame.pc = "idle" /\ frame.frames > 0) =>
        /\ instance_buffer.len = Cardinality(Drawable)
        /\ Drawable # {} => instance_buffer.data = InstancesOf(Drawable)

\* a frame has ended whose first cell found no room and whose second cell
\* was drawn
C24_Witness ==
    /\ frame.pc = "idle"
    /\ Unplaced = {1} /\ Drawable = {2}
    /\ instance_buffer.len = 1
    /\ instance_buffer.data[1].cell = 2
    /\ textPipe.glyphs[frame.seen[1].ch] = Vacant

\* ---------------------------------- instances and the atlas they use (C23)
\* the pixels of the current texture an instance's UVs select
Sampled(inst) ==
    LET side == textPipe.atlas.size
    IN  [x |-> (inst.uv_min[1] * side) \div ATLAS_MAX_SIZE,
         y |-> (inst.uv_min[2] * side) \div ATLAS_MAX_SIZE,
         w |-> ((inst.uv_max[1] - inst.uv_min[1]) * side) \div ATLAS_MAX_SIZE,
         h |-> ((inst.uv_max[2] - inst.uv_min[2]) * side) \div ATLAS_MAX_SIZE]

\* the current texture holds the instance's glyph where its UVs point
InTexture(inst) ==
    \E r \in textPipe.atlas.texture :
        /\ r.ch = inst.ch
        /\ [x |-> r.x, y |-> r.y, w |-> r.w, h |-> r.h] = Sampled(inst)

\* C23: at the end of a frame's instance build every instance written to
\* the instance buffer carries the UV rectangle of a glyph rasterized in
\* the atlas texture current at that moment; no instance built before a
\* rebuild of the atlas in the same frame keeps UVs of the replaced atlas.
C23_NoDanglingUvs ==
    (frame.pc = "idle" /\ frame.frames > 0) =>
        \A n \in 1..instance_buffer.len : InTexture(instance_buffer.data[n])

\* ------------------------------------------------ the font size (C30)
\* the font size the frame asks for
Requested == font_px_of(frame.cell_height)

\* a prepare_instances call begins
Begins == frame.pc = "idle" /\ frame'.pc = "cells"

\* the cache is emptied and the packer put back to the origin of the same
\* atlas, which takes the font size px
Restarted(px) ==
    /\ textPipe'.font_px = px
    /\ textPipe'.glyphs = NoGlyphs
    /\ textPipe'.atlas.packer = AtlasPacker(textPipe.atlas.size)
    /\ textPipe'.atlas.size = textPipe.atlas.size
    /\ textPipe'.atlas.id = textPipe.atlas.id
    /\ textPipe'.atlas.texture = textPipe.atlas.texture

\* font size, cache and atlas stay as they are
Untouched ==
    /\ textPipe'.font_px = textPipe.font_px
    /\ textPipe'.glyphs = textPipe.glyphs
    /\ textPipe'.atlas = textPipe.atlas

\* every glyph in the cache was rasterized at the pipeline's font size
CacheAtFontSize ==
    \A ch \in Cached :
        \E r \in textPipe.atlas.texture :
            /\ r.ch = ch /\ r.px = textPipe.font_px
            /\ [x |-> r.x, y |-> r.y, w |-> r.w, h |-> r.h] = PixelsOf(ch)

\* C30 as stated: a change of the rendering font size empties the glyph
\* cache and resets the packer cursor to the origin while leaving the
\* atlas size unchanged; a call with an unchanged font size changes
\* nothing; every glyph in the cache was rasterized at the active size.
C30_FontChange ==
    /\ [][Begins =>
            IF Requested' # textPipe.font_px
            THEN Restarted(Requested') ELSE Untouched]_vars
    /\ []CacheAtFontSize

\* the distance of two font sizes
Distance(a, b) == IF a >= b THEN a - b ELSE b - a

\* C30, amended: a font size 0.1 px or more away from the size the
\* pipeline holds empties the glyph cache and resets the packer cursor to
\* the origin while leaving the atlas as it is; a call with a font size
\* less than 0.1 px away, an unchanged one included, changes nothing, the
\* size the pipeline holds included; every glyph in the cache was
\* rasterized at the size the pipeline holds, which is less than 0.1 px
\* away from the size the frame asked for.
C30_FontChangeBeyondTolerance ==
    /\ [][Begins =>
            IF Distance(Requested', textPipe.font_px) >= FontTolerance
            THEN Restarted(Requested') ELSE Untouched]_vars
    /\ []CacheAtFontSize
    /\ [](frame.frames + frame.cells > 0 \/ frame.pc = "cells"
            => Distance(Requested, textPipe.font_px) < FontTolerance)

\* a second frame has begun at another font size: the cache is empty and
\* the packer at the origin, in the grown atlas whose texture still holds
\* the pixels of the first frame
C30_Witness ==
    /\ frame.pc = "cells" /\ frame.frames = 1 /\ frame.cells = 0
    /\ textPipe.font_px = Requested
    /\ textPipe.glyphs = NoGlyphs
    /\ textPipe.atlas.size = ATLAS_MAX_SIZE
    /\ textPipe.atlas.packer = AtlasPacker(ATLAS_MAX_SIZE)
    /\ textPipe.atlas.texture # {}
    /\ instance_buffer.len > 0

\* ------------------------------------------- glyphs without area (C31)
\* the character has an outline with a bounding box of some area
HasArea(ch) ==
    /\ ch \notin {" ", "zw"}
    /\ EmBounds[ch][1] > 0 /\ EmBounds[ch][2] > 0

\* the loop of prepare_instances takes one cell
TakesCell == frame.pc = "cells" /\ frame'.cells = frame.cells + 1

\* the cache entry of a glyph without area: no size, no UVs, its advance
ZeroEntryAt(ch, px) ==
    [kind |-> "glyph", uv_min |-> <<0, 0>>, uv_max |-> <<0, 0>>,
     size |-> <<0, 0>>, advance |-> h_advance(ch, px)]
ZeroEntry(ch) == ZeroEntryAt(ch, textPipe.font_px)

\* C31: a glyph with no outline or a bounding box without area is cached
\* as a zero-size entry carrying its advance, takes no atlas space (the
\* packer is as before) and produces no draw instance; a cell holding a
\* space causes no glyph lookup and no instance.
C31_ZeroSizeGlyphs ==
    /\ [](\A ch \in Chars \ {" "} :
            textPipe.glyphs[ch] # Vacant =>
                IF HasArea(ch)
                THEN textPipe.glyphs[ch].size # <<0, 0>>
                ELSE textPipe.glyphs[ch] = ZeroEntry(ch))
    /\ [](textPipe.glyphs[" "] = Vacant)
    /\ [](\A n \in 1..Len(glyph_instances) : HasArea(glyph_instances[n].ch))
    /\ [][(TakesCell /\ ~HasArea(frame'.ch)) =>
            /\ textPipe'.atlas = textPipe.atlas
            /\ textPipe'.log.calls = <<>>
            /\ glyph_instances' = glyph_instances
            /\ IF frame'.ch = " "
               THEN /\ frame'.ret = NotCalled
                    /\ textPipe'.glyphs = textPipe.glyphs
               ELSE /\ frame'.ret =
                           Some(ZeroEntryAt(frame'.ch, textPipe.font_px))
                    /\ textPipe'.glyphs[frame'.ch] =
                           ZeroEntryAt(frame'.ch, textPipe.font_px)
                    /\ textPipe'.font_px = textPipe.font_px
                    /\ \A ch \in Chars \ {frame'.ch} :
                        textPipe'.glyphs[ch] = textPipe.glyphs[ch]]_vars

\* a frame of a character without outline and one whose outline has no
\* height has ended: both are cached with their advances, the packer is at
\* the origin and there is nothing to draw
C31_Witness ==
    /\ frame.pc = "idle" /\ frame.frames = 1
    /\ Len(frame.seen) = 2
    /\ frame.seen[1].ch = "zw" /\ frame.seen[2].ch = "fl"
    /\ textPipe.glyphs["zw"] = ZeroEntry("zw")
    /\ textPipe.glyphs["fl"] = ZeroEntry("fl")
    /\ textPipe.glyphs["zw"].advance > 0
    /\ textPipe.glyphs["fl"].advance > textPipe.glyphs["zw"].advance
    /\ textPipe.atlas.packer = AtlasPacker(ATLAS_INITIAL_SIZE)
    /\ instance_buffer.len = 0

\* ------------------------------------------ instance buffer capacity (C32)
Pow2s == {64, 128, 256, 512, 1024}

\* the least power of two that is at least n and at least 64
LeastPow2(n) == CHOOSE p \in Pow2s : p >= n /\ \A q \in Pow2s : q >= n => p <= q

\* C32: after every instance build the capacity of the instance buffer is
\* at least the number of instances to draw; the capacity starts at 64 and
\* never decreases; when the required count exceeds it the buffer is
\* reallocated to the next power of two that is at least the required
\* count, never below 64; when the required count does not exceed the
\* capacity nothing is reallocated.
C32_Capacity ==
    /\ \A pipe \in Pipes : buffers[pipe].capacity = 64
    /\ [](\A pipe \in Pipes :
            /\ buffers[pipe].capacity >= buffers[pipe].required
            /\ buffers[pipe].capacity >= 64)
    /\ [][\A pipe \in Pipes :
            /\ buffers'[pipe].capacity >= buffers[pipe].capacity
            /\ IF buffers'[pipe].required > buffers[pipe].capacity
               THEN /\ buffers'[pipe].capacity =
                           LeastPow2(buffers'[pipe].required)
                    /\ buffers'[pipe].buffer = buffers[pipe].buffer + 1
               ELSE /\ buffers'[pipe].capacity = buffers[pipe].capacity
                    /\ buffers'[pipe].buffer = buffers[pipe].buffer]_vars

\* the text buffer was reallocated once, to 128 for a frame of 65, and
\* kept for a frame of 128; the background buffer was reallocated twice
\* and kept its 512 for an empty frame
C32_Witness ==
    /\ buffers["text"] = [capacity |-> 128, buffer |-> 1, required |-> 128]
    /\ buffers["bg"] = [capacity |-> 512, buffer |-> 2, required |-> 1]

\* ------------------------------------------------- a failed spawn (C33)
\* the tabs whose Session::spawn returned an error
FailedTabs == {i \in 1..NTabs : tabs[i].session = "Failed"}

\* C33: when Session::spawn returns an error, no child process started by
\* that call is left running and no reader thread is left alive; a failure
\* of reader cloning or writer acquisition after the child was spawned
\* does not orphan the child.
C33_FailedSpawnLeavesNothing ==
    \A i \in FailedTabs :
        /\ proc[tabs[i].id] # "running"
        /\ rpc[tabs[i].id] = "none"

\* ------------------------------------- the text-area-size reply (C34)
\* C34: the reply written to the PTY for a text-area-size request reports
\* the engine's current grid size (lines, columns), also after the engine
\* has been resized.
C34_ReplyReportsGridSize ==
    \A i \in 1..Len(eLog.replies) :
        /\ eLog.replies[i].ws.num_lines = eLog.replies[i].size.lines
        /\ eLog.replies[i].ws.num_cols = eLog.replies[i].size.columns

\* -------------------------------------------- render_cells (C35, C36)
\* the engine has rendered and nothing was asked of it since
JustRendered == eLog.renders > 0 /\ ~eLog.changed
\* the cells are in row-major order and show the grid of the Term
RowMajor(cells) ==
    /\ Len(cells) = engine.size.lines * engine.size.columns
    /\ \A row \in 0..(engine.size.lines - 1),
          col \in 0..(engine.size.columns - 1) :
          LET cell == cells[row * engine.size.columns + col + 1]
          IN /\ cell.row = row
             /\ cell.col = col
             /\ cell.ch = engine.term.grid[row * engine.size.columns + col + 1].c
\* a cell other than the cursor's has the background opacity of the theme
Themed(cells) ==
    \A i \in 1..Len(cells) :
        (cells[i].row # engine.term.cursor.line
         \/ cells[i].col # engine.term.cursor.column)
        => cells[i].bg[4] = engine.theme.background_opacity

\* C35: render_cells never returns a stale grid: its result reflects every
\* feed_bytes, resize and set_theme call made before it, holds exactly
\* lines x columns cells in row-major order, and is rebuilt only if one of
\* those calls happened since the previous render_cells call; otherwise the
\* same snapshot is returned.
C35_NeverStale ==
    eLog.renders > 0 =>
        /\ JustRendered =>
              /\ eLog.last.data = engine_cells(engine)
              /\ RowMajor(eLog.last.data)
              /\ Themed(eLog.last.data)
              /\ engine.term.size = engine.size
        /\ (eLog.last.rebuilt /\ eLog.renders > 1) => eLog.last.changed
        /\ ~eLog.last.rebuilt =>
              /\ eLog.last.arc = eLog.last.prev_arc
              /\ eLog.last.data = eLog.last.prev_data

\* after a snapshot was returned unchanged, the engine was fed and resized
\* to two lines and the next snapshot shows it
C35_Witness ==
    /\ JustRendered
    /\ eLog.reused >= 1
    /\ eLog.last.rebuilt /\ eLog.last.changed
    /\ eLog.last.data # eLog.last.prev_data
    /\ engine.size = [lines |-> 2, columns |-> 2]
    /\ eLog.last.data[1].ch = "x"

\* C36: a snapshot returned by render_cells is never modified while a
\* consumer still holds it: a rebuild writes into the cached vector in
\* place only when the cache is its sole owner, and otherwise builds a
\* fresh vector and replaces the cache.
C36_SnapshotsImmutable ==
    /\ \A i \in 1..Len(snapshots) :
          /\ arcs[snapshots[i].arc].live
          /\ arcs[snapshots[i].arc].data = snapshots[i].seen
    /\ arcs[engine.cells_cache].live
    /\ eLog.last.in_place =>
          /\ eLog.last.owners = 1
          /\ eLog.last.arc = eLog.last.prev_arc
    /\ (eLog.last.rebuilt /\ ~eLog.last.in_place) =>
          /\ eLog.last.owners > 1
          /\ eLog.last.arc # eLog.last.prev_arc
          /\ JustRendered => engine.cells_cache = eLog.last.arc

\* a consumer holds the previous snapshot while a rebuild made a fresh
\* vector with other cells, after an earlier rebuild in place
C36_Witness ==
    /\ Len(snapshots) = 2
    /\ snapshots[1].arc # snapshots[2].arc
    /\ snapshots[1].seen # snapshots[2].seen
    /\ snapshots[1].seen # <<>>
    /\ eLog.last.rebuilt /\ ~eLog.last.in_place
    /\ eLog.renders >= 3

\* ------------------------------------------ the selection (C37 - C40)
\* the settings tab is the active tab
SettingsActive == active_tab = SETTINGS_TAB_INDEX

\* C37: after any sequence of App messages the selection is valid:
\* active_tab is either the settings index, which implies the settings tab
\* is open, or an index below the number of tabs, or 0 when there are no
\* tabs.
C37_SelectionValid ==
    uiPc = "idle" =>
        \/ SettingsActive /\ settings_open
        \/ active_tab < NTabs
        \/ NTabs = 0 /\ active_tab = 0

\* three tabs were opened, the first was removed while the last was
\* active, and the settings tab is open but not active
C37_Witness ==
    /\ uiPc = "idle"
    /\ NTabs = 2 /\ tabs[1].id = 2 /\ tabs[2].id = 3
    /\ active_tab = 1
    /\ settings_open

\* a handler has removed a tab and, with the tab dropped, sets the selection
\* in this step
RemovalDone ==
    \/ uiPc = "idle" /\ uiPc' = "idle" /\ Len(tabs') < Len(tabs)
    \/ uiPc # "idle" /\ uiPc' = "idle"

\* C38: while the settings tab is the active tab, the removal of a terminal
\* tab - by the user closing it or by its session emitting Closed - leaves
\* the settings tab active.
C38_SettingsStaysActive ==
    [][(SettingsActive /\ RemovalDone) => SettingsActive']_vars

\* the position the tab being dropped had in self.tabs (tabs are in the
\* order of their ids)
DroppedPos == Cardinality({i \in 1..NTabs : tabs[i].id < uiDrop.id})
\* the id of the tab that was at position a before the removal
IdBefore(a) ==
    IF a < DroppedPos THEN tabs[a + 1].id
    ELSE IF a = DroppedPos THEN uiDrop.id
    ELSE tabs[a].id
\* the position of the tab removed in this step
RemovedPos == CHOOSE i \in 0..(NTabs - 1) :
                  \A j \in 1..Len(tabs') : tabs'[j].id # tabs[i + 1].id

\* C39: removing a terminal tab other than the active one (by user close
\* or by its session closing) keeps the same tab, identified by its id,
\* active afterwards.
C39_SameTabStaysActive ==
    [][/\ (/\ uiPc = "idle" /\ uiPc' = "idle" /\ Len(tabs') < Len(tabs)
           /\ active_tab < NTabs /\ active_tab # RemovedPos)
          => /\ active_tab' < Len(tabs')
             /\ tabs'[active_tab' + 1].id = tabs[active_tab + 1].id
       /\ (/\ uiPc # "idle" /\ uiPc' = "idle"
           /\ active_tab <= NTabs /\ active_tab # DroppedPos)
          => /\ active_tab' < NTabs
             /\ tabs[active_tab' + 1].id = IdBefore(active_tab)]_vars

\* the tabs whose session is written to in this step
WrittenTo == {id \in Ids : ptyIn'[id] # ptyIn[id]}

\* C40: a KeyPressed message writes bytes only to the session of the
\* currently active terminal tab; while the settings tab is active or the
\* shell picker is shown it writes nothing to any session (in the picker,
\* Escape only closes the picker).
C40_KeysGoToActiveTab ==
    [][/\ \A id \in WrittenTo :
             /\ ~SettingsActive /\ ~show_shell_picker
             /\ active_tab < NTabs
             /\ tabs[active_tab + 1].id = id
             /\ tabs[active_tab + 1].session = "Active"
       /\ (SettingsActive \/ show_shell_picker) => WrittenTo = {}]_vars

\* the second of two tabs was sent a key while it was active, the first
\* was sent none, and the shell picker was opened afterwards
C40_Witness ==
    /\ NTabs = 2 /\ active_tab = 1
    /\ ptyIn[tabs[2].id] = 1 /\ ptyIn[tabs[1].id] = 0
    /\ tabs[1].session = "Active"
    /\ show_shell_picker

====
